---- MODULE Spec2Model ----
(***************************************************************************)
(* Model of the retrieval / guardrail pipeline of the research portal:     *)
(* src/rag/retriever.py, src/rag/reranker.py, src/rag/guardrails.py,       *)
(* src/rag/pipeline.py and the part of src/eval/evaluator.py that consumes *)
(* the pipeline's result.                                                  *)
(*                                                                         *)
(* Text (chunk identifiers, queries, chunk text, answers) is a sequence of *)
(* one-character strings, so that suffix tests, substring tests, lowering  *)
(* and tokenising are computed character by character as the code does.    *)
(* Scores are exact rationals in fixed units: vector and lexical scores in *)
(* 1/ScoreUnit, weights in tenths, combined scores in 1/(10*ScoreUnit).    *)
(*                                                                         *)
(* Specifications: Spec (one call of RAGPipeline.query and its evaluation),*)
(* SpecVerify (verify_citations), SpecGate (topic_presence_check),         *)
(* SpecRetrieve (HybridRetriever.retrieve), SpecRerank (LLMReranker.rerank)*)
(* SpecExpand (HybridRetriever.expand_chunks), SpecEntity (entity_check),  *)
(* SpecBatch (Evaluator.run_full_eval with its worker pool and retry       *)
(* rounds), SpecPortal (sessions of app/main.py on the cached pipeline).   *)
(***************************************************************************)
EXTENDS Integers, Sequences, FiniteSets, TLC

VARIABLES
    pc,             \* position of the running call
    question,       \* the query text
    retrieval,      \* the RetrievalResult of the call
    generated,      \* the Answer as the generator produced it (history)
    response,       \* the Answer being built / returned
    verified,       \* successive results of verify_citations (history)
    replay,         \* result of an independent execution on the same input
    weights,        \* (vector_weight, bm25_weight) passed by the caller, None = default
    vector_results, \* what the semantic index returned (SpecRetrieve)
    bm25_results,   \* what the lexical index returned (SpecRetrieve)
    last_retrieval, \* RAGPipeline._last_retrieval
    log,            \* records appended by QueryLogger.log
    calls,          \* the stages and services invoked so far and the failures met, in order (history)
    evaluation,     \* what Evaluator.evaluate_single computed from the call
    gate_passed,    \* what topic_presence_check returned (SpecGate)
    fused,          \* the local list `fused` of retrieve, after its sort (SpecRetrieve)
    candidates,     \* the chunk list handed to LLMReranker.rerank (SpecRerank)
    rerank_outcome, \* what the relevance-scoring call did (SpecRerank)
    config,         \* the Config of the call, where it is not the deployment's (SpecExpand)
    harness,        \* the thread that runs run_full_eval: its position and locals (SpecBatch)
    threads,        \* every thread that runs RAGPipeline.query: position and locals
    pipelines,      \* the RAGPipeline instances created so far, with their _last_retrieval
    futures,        \* the futures of the worker pool, by submission index
    results,        \* the list `results` of run_full_eval / the portal's session_state
    log_file,       \* what the write calls of QueryLogger.log put in the log file, in order
    runs            \* every call of evaluate_single / query started so far (history)

vars == <<pc, question, retrieval, generated, response, verified, replay, weights,
          vector_results, bm25_results, last_retrieval, log, calls, evaluation,
          gate_passed, fused, candidates, rerank_outcome, config,
          harness, threads, pipelines, futures, results, log_file, runs>>

(***************************************************************************)
(* Bounds of the model.                                                    *)
(***************************************************************************)
MaxCites == 2
MaxPipeCites == 1
MaxVecResults == 2
MaxBm25Results == 1

\* one unit of a vector or lexical score is 1/ScoreUnit
ScoreUnit == 60 * 5

(***************************************************************************)
(* Text helpers (Python str semantics).                                    *)
(***************************************************************************)
Range(s) == {s[i] : i \in DOMAIN s}

endswith(s, suf) ==
    /\ Len(suf) <= Len(s)
    /\ SubSeq(s, Len(s) - Len(suf) + 1, Len(s)) = suf

\* Python's "sub in text"
contains(text, sub) ==
    \E i \in 0..(Len(text) - Len(sub)) : SubSeq(text, i + 1, i + Len(sub)) = sub

\* every ordering in which a set of the given elements can be iterated
Orderings(S) ==
    {o \in [1..Cardinality(S) -> S] : \A i, j \in DOMAIN o : i # j => o[i] # o[j]}

(***************************************************************************)
(* The corpus: chunk identifiers are source__section__NNN.  _chunk_index   *)
(* is what HybridRetriever.__init__ loads from chunks.jsonl.               *)
(***************************************************************************)
SEP == <<"_", "_">>
MkId(source, section, num) == source \o SEP \o section \o SEP \o num

ID_A1 == MkId(<<"a">>, <<"b">>, <<"0", "0", "1">>)
ID_A2 == MkId(<<"a">>, <<"b">>, <<"0", "0", "2">>)
ID_C1 == MkId(<<"c">>, <<"b">>, <<"0", "0", "1">>)
CorpusIds == {ID_A1, ID_A2, ID_C1}

TEXT_A1 == <<"A", "M", "P", "K", " ", "u", "p", " ", "3", "1", "%", ".">>
TEXT_A2 == <<"R", "e", "s", "t", " ", "h", "e", "l", "p", "s", ".">>
TEXT_C1 == <<"T", "a", "u", " ", "o", "k", ".">>

DocText(cid) ==
    CASE cid = ID_A1 -> TEXT_A1
      [] cid = ID_A2 -> TEXT_A2
      [] OTHER       -> TEXT_C1

_chunk_index ==
    [cid \in CorpusIds |->
        [source_id |-> <<cid[1]>>, section |-> <<"b">>, text |-> DocText(cid)]]

(***************************************************************************)
(* schemas.py: Citation, RAGResponse, RetrievalResult.                     *)
(***************************************************************************)
RetrievedChunk(cid, source, section, text, vec, bm25, combined) ==
    [chunk_id |-> cid, source_id |-> source, section |-> section, text |-> text,
     vector_score |-> vec, bm25_score |-> bm25, combined_score |-> combined]

Citation(source, cid) == [source_id |-> source, chunk_id |-> cid]

Confidences == {"high", "medium", "low"}

RAGResponse(ans, cites, conf, quality, noev, cav) ==
    [answer |-> ans, citations |-> cites, confidence |-> conf,
     evidence_quality |-> quality, no_evidence |-> noev, caveats |-> cav]

RetrievalResult(q, chunks, total, above, sufficient) ==
    [query |-> q, chunks |-> chunks, all_candidates |-> total,
     above_threshold |-> above, has_sufficient_evidence |-> sufficient]

\* a caveat string, kept as the values formatted into it
Caveat(kind, count, items) == [kind |-> kind, count |-> count, items |-> items]

NoResponse == RAGResponse(<<>>, <<>>, "none", "", FALSE, <<>>)

(***************************************************************************)
(* Optional values and Python helpers.                                     *)
(***************************************************************************)
\* None is <<>>, a value v is <<v>>
None == <<>>
Some(v) == <<v>>

\* a single call, outside the batch harness and the portal
NoHarness ==
    /\ harness = None
    /\ threads = <<>>
    /\ pipelines = <<>>
    /\ futures = <<>>
    /\ results = <<>>
    /\ log_file = <<>>
    /\ runs = <<>>

\* s[:n]
Take(s, n) == SubSeq(s, 1, IF n < Len(s) THEN n ELSE Len(s))

\* a >= b for sort keys: a number as <<x>>, a pair as <<x, y>>, compared as
\* Python compares tuples
KeyGeq(a, b) == a[1] > b[1] \/ (a[1] = b[1] /\ (Len(a) = 1 \/ a[2] >= b[2]))

\* the indices 1..n in the order sorted(..., reverse=True) puts them, keys[i]
\* being the key of the i-th element; the sort is stable: elements with
\* equal keys keep their relative order
RECURSIVE SortedIndices(_, _)
SortedIndices(keys, n) ==
    IF n = 0 THEN <<>>
    ELSE LET prev == SortedIndices(keys, n - 1)
             pos  == Cardinality({i \in DOMAIN prev : KeyGeq(keys[prev[i]], keys[n])})
         IN  SubSeq(prev, 1, pos) \o <<n>> \o SubSeq(prev, pos + 1, Len(prev))

\* sorted(s, key=..., reverse=True)
sorted_reverse(s, keys) ==
    LET idx == SortedIndices(keys, Len(s)) IN [i \in DOMAIN s |-> s[idx[i]]]

(***************************************************************************)
(* config.py.  Scores: similarity_threshold 0.25 in units of 1/ScoreUnit,  *)
(* weights 0.6 / 0.4 in tenths.  The widths are the configuration of the   *)
(* deployment, scaled to the size of the model's corpus.                   *)
(***************************************************************************)
similarity_threshold == ScoreUnit \div 4
vector_weight == 6
bm25_weight == 4
rerank_candidates == 2
final_k == 2
chunk_expand_window == 1
max_chunks_after_expand == 3

(***************************************************************************)
(* retriever.py: HybridRetriever.retrieve.                                 *)
(***************************************************************************)
\* FAISS L2 distance to similarity, 1 / (1 + dist)
Sim(dist) == ScoreUnit \div (1 + dist)

\* rank-based lexical score, 1 / (rank + 1), rank counted from 0
LexScore(rank) == ScoreUnit \div (rank + 1)

\* dict built by assignment in a loop: the last entry of a key wins
LastIndex(ids, cid) ==
    CHOOSE i \in DOMAIN ids : ids[i] = cid /\ \A j \in DOMAIN ids : j > i => ids[j] # cid

vector_scored(vres, cid) ==
    LET ids == [i \in DOMAIN vres |-> vres[i].chunk_id]
    IN  IF cid \in Range(ids) THEN Sim(vres[LastIndex(ids, cid)].dist) ELSE 0

bm25_scored(bres, cid) ==
    IF cid \in Range(bres) THEN LexScore(LastIndex(bres, cid) - 1) ELSE 0

AllIds(vres, bres) == {vres[i].chunk_id : i \in DOMAIN vres} \cup Range(bres)

\* retriever.py 86-105: the fused candidates, sorted by combined_score
fuse(vw, bw, vres, bres, order) ==
    LET scored == [i \in DOMAIN order |->
                    LET cid == order[i]
                        vec_score  == vector_scored(vres, cid)
                        bm25_score == bm25_scored(bres, cid)
                    IN  RetrievedChunk(cid, <<cid[1]>>, <<"b">>, DocText(cid),
                                       vec_score, bm25_score,
                                       vw * vec_score + bw * bm25_score)]
    IN  sorted_reverse(scored, [i \in DOMAIN scored |-> <<scored[i].combined_score>>])

\* a faulty fusion: the similarity floor is applied to the combined score
retrieve_by_combined(query, vw_arg, bw_arg, vres, bres, order) ==
    LET vw == IF vw_arg # None THEN vw_arg[1] ELSE vector_weight
        bw == IF bw_arg # None THEN bw_arg[1] ELSE bm25_weight
        ranked == fuse(vw, bw, vres, bres, order)
        Above(c) == c.combined_score >= 10 * similarity_threshold
        above == SelectSeq(ranked, Above)
        final == Take(above, rerank_candidates)
    IN  RetrievalResult(query, final, Len(ranked), Len(above), Len(final) > 0)

\* a faulty choice of weights: "weight or default", so that a weight of 0
\* passed by the caller is replaced by the configured one
call_weights_falsy(vw_arg, bw_arg) ==
    [vw |-> IF vw_arg # None /\ vw_arg[1] # 0 THEN vw_arg[1] ELSE vector_weight,
     bw |-> IF bw_arg # None /\ bw_arg[1] # 0 THEN bw_arg[1] ELSE bm25_weight]

\* retriever.py 63-64: the weights of the call
call_weights(vw_arg, bw_arg) ==
    [vw |-> IF vw_arg # None THEN vw_arg[1] ELSE vector_weight,
     bw |-> IF bw_arg # None THEN bw_arg[1] ELSE bm25_weight]

\* a faulty result: evidence is called sufficient when any candidate exists
retrieve_sufficient_by_candidates(query, vw_arg, bw_arg, vres, bres, order) ==
    LET w  == call_weights(vw_arg, bw_arg)
        ranked == fuse(w.vw, w.bw, vres, bres, order)
        Above(c) == c.vector_score >= similarity_threshold
        above == SelectSeq(ranked, Above)
        final == Take(above, rerank_candidates)
    IN  RetrievalResult(query, final, Len(ranked), Len(above), Len(ranked) > 0)

\* vres: (chunk_id, dist) pairs of the semantic index; bres: chunk ids of the
\* lexical index in rank order; order: the iteration order of the set all_ids.
\* No caller passes top_k, so k is the configured rerank_candidates.
retrieve(query, vw_arg, bw_arg, vres, bres, order) ==
    LET w  == call_weights(vw_arg, bw_arg)
        k  == rerank_candidates
        ranked == fuse(w.vw, w.bw, vres, bres, order)
        Above(c) == c.vector_score >= similarity_threshold
        above == SelectSeq(ranked, Above)
        final == Take(above, k)
    IN  RetrievalResult(query, final, Len(ranked), Len(above), Len(final) > 0)

(***************************************************************************)
(* retriever.py: chunk expansion.                                          *)
(***************************************************************************)
Digits == <<"0", "1", "2", "3", "4", "5", "6", "7", "8", "9">>
DigitSet == Range(Digits)
IsDigit(c) == c \in DigitSet
DigitVal(c) == (CHOOSE i \in DOMAIN Digits : Digits[i] = c) - 1

\* int(s) for a string of decimal digits with an optional sign; None is ValueError
RECURSIVE DigitsValue(_, _)
DigitsValue(s, n) ==
    IF n = 0 THEN 0 ELSE 10 * DigitsValue(s, n - 1) + DigitVal(s[n])

ParseInt(s) ==
    LET body == IF s # <<>> /\ s[1] \in {"-", "+"} THEN Tail(s) ELSE s
    IN  IF body = <<>> \/ \E i \in DOMAIN body : ~IsDigit(body[i]) THEN None
        ELSE IF s[1] = "-" THEN Some(0 - DigitsValue(body, Len(body)))
        ELSE Some(DigitsValue(body, Len(body)))

\* s.rsplit("__", 1)
RSplit1(s) ==
    LET at == {i \in 1..(Len(s) - 1) : SubSeq(s, i, i + 1) = SEP}
    IN  IF at = {} THEN <<s>>
        ELSE LET r == CHOOSE i \in at : \A j \in at : j <= i
             IN  <<SubSeq(s, 1, r - 1), SubSeq(s, r + 2, Len(s))>>

\* s.rsplit("__", 2)
RSplit2(s) ==
    LET p == RSplit1(s)
    IN  IF Len(p) = 1 THEN p ELSE RSplit1(p[1]) \o <<p[2]>>

_parse_chunk_id(chunk_id) ==
    LET parts == RSplit2(chunk_id)
    IN  IF Len(parts) = 3 /\ ParseInt(parts[3]) # None
        THEN Some([source_id |-> parts[1], section |-> parts[2], num |-> ParseInt(parts[3])[1]])
        ELSE None

\* the decimal digits of n >= 0
RECURSIVE DecimalDigits(_)
DecimalDigits(n) ==
    IF n < 10 THEN <<Digits[n + 1]>> ELSE DecimalDigits(n \div 10) \o <<Digits[(n % 10) + 1]>>

RECURSIVE ZeroPad(_, _)
ZeroPad(s, width) == IF Len(s) >= width THEN s ELSE ZeroPad(<<"0">> \o s, width)

\* f"{n:03d}"
Format03d(n) ==
    IF n >= 0 THEN ZeroPad(DecimalDigits(n), 3)
    ELSE <<"-">> \o ZeroPad(DecimalDigits(0 - n), 2)

\* range(-window, window + 1) without 0, in order
Offsets(window) ==
    [i \in 1..(2 * window) |-> IF i <= window THEN i - window - 1 ELSE i - window]

IdsOf(chunks) == {chunks[i].chunk_id : i \in DOMAIN chunks}

\* a faulty inner loop: a neighbor is given the scores of the retained chunk
RECURSIVE AddNeighborsUndiscounted(_, _, _, _, _, _)
AddNeighborsUndiscounted(chunk, parsed, offsets, j, expanded, index) ==
    IF j > Len(offsets) THEN expanded
    ELSE LET adj_id == MkId(parsed.source_id, parsed.section,
                            Format03d(parsed.num + offsets[j]))
         IN  IF adj_id \in IdsOf(expanded) \/ adj_id \notin DOMAIN index
             THEN AddNeighborsUndiscounted(chunk, parsed, offsets, j + 1, expanded, index)
             ELSE AddNeighborsUndiscounted(chunk, parsed, offsets, j + 1,
                    Append(expanded,
                        RetrievedChunk(adj_id, index[adj_id].source_id,
                                       index[adj_id].section, index[adj_id].text,
                                       chunk.vector_score, chunk.bm25_score,
                                       chunk.combined_score)),
                    index)

\* the inner loop of expand_chunks for one retained chunk
RECURSIVE AddNeighbors(_, _, _, _, _, _)
AddNeighbors(chunk, parsed, offsets, j, expanded, index) ==
    IF j > Len(offsets) THEN expanded
    ELSE LET adj_id == MkId(parsed.source_id, parsed.section,
                            Format03d(parsed.num + offsets[j]))
         IN  IF adj_id \in IdsOf(expanded) \/ adj_id \notin DOMAIN index
             THEN AddNeighbors(chunk, parsed, offsets, j + 1, expanded, index)
             ELSE AddNeighbors(chunk, parsed, offsets, j + 1,
                    Append(expanded,
                        RetrievedChunk(adj_id, index[adj_id].source_id,
                                       index[adj_id].section, index[adj_id].text,
                                       (chunk.vector_score * 8) \div 10, 0,
                                       (chunk.combined_score * 8) \div 10)),
                    index)

\* the outer loop of expand_chunks, from the i-th retained chunk on
RECURSIVE ExpandFrom(_, _, _, _, _, _)
ExpandFrom(chunks, i, expanded, index, window, cap) ==
    IF i > Len(chunks) THEN expanded
    ELSE LET parsed == _parse_chunk_id(chunks[i].chunk_id)
         IN  IF parsed = None
             THEN ExpandFrom(chunks, i + 1, expanded, index, window, cap)
             ELSE LET after == AddNeighbors(chunks[i], parsed[1], Offsets(window), 1,
                                            expanded, index)
                  IN  IF Len(after) >= cap THEN after
                      ELSE ExpandFrom(chunks, i + 1, after, index, window, cap)

expand_chunks(rr, index, window, cap) ==
    IF DOMAIN index = {} \/ window <= 0 THEN rr
    ELSE [rr EXCEPT !.chunks = Take(ExpandFrom(rr.chunks, 1, rr.chunks, index, window, cap), cap)]

(***************************************************************************)
(* reranker.py: LLMReranker.rerank.  `outcome` is what the scoring call    *)
(* did: None when it raised, otherwise the score_map built from its reply  *)
(* (a function from the chunk ids it mentioned to a relevance in 0..10).   *)
(***************************************************************************)
RerankCallsService(chunks) == Len(chunks) > 1

\* a faulty fallback: a failed scoring call leaves no chunks
rerank_empty_on_failure(query, chunks, outcome) ==
    IF Len(chunks) <= 1 THEN chunks
    ELSE IF outcome = None THEN <<>>
    ELSE LET score_map == outcome[1]
             Rel(c) == IF c.chunk_id \in DOMAIN score_map THEN score_map[c.chunk_id] ELSE 0
         IN  sorted_reverse(chunks,
                [i \in DOMAIN chunks |-> <<Rel(chunks[i]), chunks[i].combined_score>>])

\* a faulty sort: chunks the service did not mention are left out
rerank_drops_unmentioned(query, chunks, outcome) ==
    IF Len(chunks) <= 1 THEN chunks
    ELSE IF outcome = None THEN chunks
    ELSE LET score_map == outcome[1]
             Mentioned(c) == c.chunk_id \in DOMAIN score_map
             scored == SelectSeq(chunks, Mentioned)
         IN  sorted_reverse(scored,
                [i \in DOMAIN scored |->
                    <<score_map[scored[i].chunk_id], scored[i].combined_score>>])

rerank(query, chunks, outcome) ==
    IF Len(chunks) <= 1 THEN chunks
    ELSE IF outcome = None THEN chunks
    ELSE LET score_map == outcome[1]
             Rel(c) == IF c.chunk_id \in DOMAIN score_map THEN score_map[c.chunk_id] ELSE 0
         IN  sorted_reverse(chunks,
                [i \in DOMAIN chunks |-> <<Rel(chunks[i]), chunks[i].combined_score>>])

(***************************************************************************)
(* guardrails.py: citation verification.                                   *)
(***************************************************************************)
\* Python truthiness of "str | None": None and "" are false
Truthy(opt) == opt # None /\ opt[1] # <<>>

\* the element at the least of the given positions of the iteration order,
\* None when there is none
FirstMatch(order, positions) ==
    IF positions = {} THEN None
    ELSE Some(order[CHOOSE i \in positions : \A j \in positions : i <= j])

\* Faulty resolvers the citation properties must tell from the code's: one
\* trusts the cited identifier, one honours only the separator form of a
\* truncated identifier
resolve_unchecked(raw_id, order) == Some(raw_id)

resolve_by_separator(raw_id, order) ==
    FirstMatch(order, {i \in DOMAIN order : endswith(order[i], SEP \o raw_id)})

\* retrieved_ids is a Python set: `order` is the order its iteration yields
_resolve_chunk_id(raw_id, order) ==
    IF raw_id \in Range(order) THEN Some(raw_id)
    ELSE FirstMatch(order, {i \in DOMAIN order :
                \/ endswith(order[i], SEP \o raw_id)
                \/ endswith(order[i], raw_id)})

\* the citations kept, rewritten to the identifier they resolved to
RECURSIVE ValidCitations(_, _, _)
ValidCitations(cites, order, i) ==
    IF i > Len(cites) THEN <<>>
    ELSE LET resolved == _resolve_chunk_id(cites[i].chunk_id, order)
         IN  (IF Truthy(resolved)
              THEN <<[cites[i] EXCEPT !.chunk_id = resolved[1]]>>
              ELSE <<>>) \o ValidCitations(cites, order, i + 1)

RECURSIVE RemovedCitations(_, _, _)
RemovedCitations(cites, order, i) ==
    IF i > Len(cites) THEN <<>>
    ELSE (IF Truthy(_resolve_chunk_id(cites[i].chunk_id, order))
          THEN <<>>
          ELSE <<cites[i]>>) \o RemovedCitations(cites, order, i + 1)

RetrievedIds(rr) == {rr.chunks[i].chunk_id : i \in DOMAIN rr.chunks}

\* a faulty verifier: drops without a caveat and without a downgrade
verify_citations_silently(resp, rr, order) ==
    [resp EXCEPT !.citations = ValidCitations(resp.citations, order, 1)]

\* a faulty verifier: its caveat replaces the caveats the Answer came with
verify_citations_overwriting(resp, rr, order) ==
    LET valid   == ValidCitations(resp.citations, order, 1)
        removed == RemovedCitations(resp.citations, order, 1)
        removed_ids == [i \in DOMAIN removed |-> removed[i].chunk_id]
    IN  IF removed # <<>>
        THEN [resp EXCEPT
                !.caveats = <<Caveat("removed_citations", Len(removed), removed_ids)>>,
                !.confidence = IF @ = "high" THEN "medium" ELSE @,
                !.citations = valid]
        ELSE [resp EXCEPT !.citations = valid]

verify_citations(resp, rr, order) ==
    LET valid   == ValidCitations(resp.citations, order, 1)
        removed == RemovedCitations(resp.citations, order, 1)
        removed_ids == [i \in DOMAIN removed |-> removed[i].chunk_id]
    IN  IF removed # <<>>
        THEN [resp EXCEPT
                !.caveats = Append(@, Caveat("removed_citations", Len(removed), removed_ids)),
                !.confidence = IF @ = "high" THEN "medium" ELSE @,
                !.citations = valid]
        ELSE [resp EXCEPT !.citations = valid]

(***************************************************************************)
(* guardrails.py: topic presence check (the Evidence Gate).                *)
(***************************************************************************)
LowerLetters == <<"a", "b", "c", "d", "e", "f", "g", "h", "i", "j", "k", "l", "m",
                  "n", "o", "p", "q", "r", "s", "t", "u", "v", "w", "x", "y", "z">>
UpperLetters == <<"A", "B", "C", "D", "E", "F", "G", "H", "I", "J", "K", "L", "M",
                  "N", "O", "P", "Q", "R", "S", "T", "U", "V", "W", "X", "Y", "Z">>
LowerSet == Range(LowerLetters)
UpperSet == Range(UpperLetters)
IsLower(c) == c \in LowerSet
IsUpper(c) == c \in UpperSet


\* str.lower()
LowerChar(c) ==
    IF IsUpper(c) THEN LowerLetters[CHOOSE i \in DOMAIN UpperLetters : UpperLetters[i] = c]
    ELSE c
lower(s) == [i \in DOMAIN s |-> LowerChar(s[i])]

\* sep.join(parts)
RECURSIVE join(_, _)
join(sep, parts) ==
    IF parts = <<>> THEN <<>>
    ELSE IF Len(parts) = 1 THEN parts[1]
    ELSE parts[1] \o sep \o join(sep, Tail(parts))

_STOP_WORDS == {
    <<"a">>, <<"a", "b", "o", "u", "t">>, <<"a", "b", "o", "v", "e">>,
    <<"a", "c", "c", "o", "r", "d", "i", "n", "g">>, <<"a", "c", "r", "o", "s", "s">>,
    <<"a", "f", "t", "e", "r">>, <<"a", "g", "a", "i", "n">>, <<"a", "l", "l">>,
    <<"a", "l", "s", "o">>, <<"a", "n">>, <<"a", "n", "d">>, <<"a", "n", "y">>,
    <<"a", "r", "e">>, <<"a", "s">>, <<"a", "s", "s", "o", "c", "i", "a", "t", "e", "d">>,
    <<"a", "t">>, <<"b", "e">>, <<"b", "e", "c", "a", "u", "s", "e">>, <<"b", "e", "e", "n">>,
    <<"b", "e", "f", "o", "r", "e">>, <<"b", "e", "i", "n", "g">>,
    <<"b", "e", "t", "w", "e", "e", "n">>, <<"b", "o", "t", "h">>, <<"b", "u", "t">>,
    <<"b", "y">>, <<"c", "a", "n">>, <<"c", "o", "r", "p", "u", "s">>,
    <<"c", "o", "u", "l", "d">>, <<"d", "e", "s", "c", "r", "i", "b", "e">>,
    <<"d", "e", "s", "c", "r", "i", "b", "e", "d">>, <<"d", "i", "d">>, <<"d", "o">>,
    <<"d", "o", "e", "s">>, <<"d", "o", "i", "n", "g">>, <<"d", "o", "w", "n">>,
    <<"d", "u", "r", "i", "n", "g">>, <<"e", "a", "c", "h">>, <<"e", "f", "f", "e", "c", "t">>,
    <<"e", "v", "i", "d", "e", "n", "c", "e">>, <<"f", "e", "w">>, <<"f", "i", "n", "d">>,
    <<"f", "i", "n", "d", "i", "n", "g", "s">>, <<"f", "o", "r">>, <<"f", "r", "o", "m">>,
    <<"f", "u", "r", "t", "h", "e", "r">>, <<"g", "e", "t">>, <<"g", "o", "t">>,
    <<"h", "a", "d">>, <<"h", "a", "s">>, <<"h", "a", "v", "e">>, <<"h", "e">>,
    <<"h", "e", "r">>, <<"h", "e", "r", "e">>, <<"h", "e", "r", "s">>,
    <<"h", "e", "r", "s", "e", "l", "f">>, <<"h", "i", "m">>,
    <<"h", "i", "m", "s", "e", "l", "f">>, <<"h", "i", "s">>, <<"h", "o", "w">>, <<"i">>,
    <<"i", "f">>, <<"i", "n">>, <<"i", "n", "t", "o">>, <<"i", "s">>, <<"i", "t">>,
    <<"i", "t", "s">>, <<"i", "t", "s", "e", "l", "f">>, <<"j", "u", "s", "t">>,
    <<"k", "e", "y">>, <<"k", "n", "o", "w">>, <<"l", "e", "t">>, <<"l", "i", "k", "e">>,
    <<"m", "a", "i", "n">>, <<"m", "a", "k", "e">>, <<"m", "a", "y">>, <<"m", "e">>,
    <<"m", "i", "g", "h", "t">>, <<"m", "o", "r", "e">>, <<"m", "o", "s", "t">>,
    <<"m", "u", "c", "h">>, <<"m", "u", "s", "t">>, <<"m", "y">>,
    <<"m", "y", "s", "e", "l", "f">>, <<"n", "o">>, <<"n", "o", "r">>, <<"n", "o", "t">>,
    <<"n", "o", "w">>, <<"o", "f">>, <<"o", "f", "f">>, <<"o", "n">>, <<"o", "n", "c", "e">>,
    <<"o", "n", "l", "y">>, <<"o", "r">>, <<"o", "t", "h", "e", "r">>, <<"o", "u", "r">>,
    <<"o", "u", "r", "s">>, <<"o", "u", "r", "s", "e", "l", "v", "e", "s">>, <<"o", "u", "t">>,
    <<"o", "v", "e", "r">>, <<"o", "w", "n">>, <<"r", "o", "l", "e">>, <<"s", "a", "m", "e">>,
    <<"s", "a", "y">>, <<"s", "h", "a", "l", "l">>, <<"s", "h", "e">>,
    <<"s", "h", "o", "u", "l", "d">>, <<"s", "o">>, <<"s", "o", "m", "e">>,
    <<"s", "u", "c", "h">>, <<"s", "u", "g", "g", "e", "s", "t">>, <<"t", "a", "k", "e">>,
    <<"t", "h", "a", "n">>, <<"t", "h", "a", "t">>, <<"t", "h", "e">>,
    <<"t", "h", "e", "i", "r">>, <<"t", "h", "e", "i", "r", "s">>, <<"t", "h", "e", "m">>,
    <<"t", "h", "e", "m", "s", "e", "l", "v", "e", "s">>, <<"t", "h", "e", "n">>,
    <<"t", "h", "e", "r", "e">>, <<"t", "h", "e", "s", "e">>, <<"t", "h", "e", "y">>,
    <<"t", "h", "i", "s">>, <<"t", "h", "o", "s", "e">>, <<"t", "h", "r", "o", "u", "g", "h">>,
    <<"t", "o">>, <<"t", "o", "o">>, <<"u", "n", "d", "e", "r">>, <<"u", "n", "t", "i", "l">>,
    <<"u", "p">>, <<"u", "s">>, <<"v", "e", "r", "y">>, <<"w", "a", "s">>, <<"w", "e">>,
    <<"w", "e", "r", "e">>, <<"w", "h", "a", "t">>, <<"w", "h", "e", "n">>,
    <<"w", "h", "e", "r", "e">>, <<"w", "h", "i", "c", "h">>, <<"w", "h", "i", "l", "e">>,
    <<"w", "h", "o">>, <<"w", "h", "o", "m">>, <<"w", "h", "y">>, <<"w", "i", "l", "l">>,
    <<"w", "i", "t", "h">>, <<"w", "o", "u", "l", "d">>, <<"y", "o", "u">>,
    <<"y", "o", "u", "r">>, <<"y", "o", "u", "r", "s">>,
    <<"y", "o", "u", "r", "s", "e", "l", "f">>,
    <<"y", "o", "u", "r", "s", "e", "l", "v", "e", "s">>
}

\* the end of the longest run of characters of the set `chars` that starts
\* at i (i - 1 when s[i] is not one)
RECURSIVE RunEnd(_, _, _)
RunEnd(s, chars, i) ==
    IF i <= Len(s) /\ s[i] \in chars THEN RunEnd(s, chars, i + 1) ELSE i - 1

\* re.findall(r"[A-Za-z0-9][\w\-/]*", s), scanning from position i
IsTokenStart(c) == IsLower(c) \/ IsUpper(c) \/ IsDigit(c)
TokenChars == LowerSet \cup UpperSet \cup DigitSet \cup {"_", "-", "/"}

RECURSIVE FindTokens(_, _)
FindTokens(s, i) ==
    IF i > Len(s) THEN <<>>
    ELSE IF IsTokenStart(s[i])
         THEN LET e == RunEnd(s, TokenChars, i + 1)
              IN  <<SubSeq(s, i, e)>> \o FindTokens(s, e + 1)
         ELSE FindTokens(s, i + 1)

_extract_query_keywords(query) ==
    LET tokens == FindTokens(query, 1)
    IN  {lower(tokens[i]) : i \in
            {j \in DOMAIN tokens : lower(tokens[j]) \notin _STOP_WORDS /\ Len(tokens[j]) >= 3}}

Min(a, b) == IF a <= b THEN a ELSE b
Max(a, b) == IF a >= b THEN a ELSE b

\* a faulty gate: the required hits do not scale with the number of keywords
topic_presence_check_fixed_hits(query, chunks, min_keyword_hits) ==
    LET keywords == _extract_query_keywords(query)
        context_lower == join(<<" ">>, [i \in DOMAIN chunks |-> lower(chunks[i].text)])
        hits == Cardinality({kw \in keywords : contains(context_lower, kw)})
    IN  IF keywords = {} THEN TRUE ELSE hits >= min_keyword_hits

topic_presence_check(query, chunks, min_keyword_hits) ==
    LET keywords == _extract_query_keywords(query)
        context_lower == join(<<" ">>, [i \in DOMAIN chunks |-> lower(chunks[i].text)])
        hits == Cardinality({kw \in keywords : contains(context_lower, kw)})
        threshold == Min(min_keyword_hits, Max(1, Cardinality(keywords) \div 3))
    IN  IF keywords = {} THEN TRUE ELSE hits >= threshold

(***************************************************************************)
(* Regular expressions (Python re: leftmost match, greedy quantifiers,     *)
(* alternatives in order, backtracking).  A pattern is a sequence of       *)
(* items: a character set, a word boundary, a greedy star or option over a *)
(* sub-pattern, or an alternation.  ReMatch gives the position after the   *)
(* match of the pattern at pos, or -1.  The alphabet is ASCII.             *)
(***************************************************************************)
ReSet(S)     == [t |-> "set",  chars |-> S,  body |-> <<>>, alts |-> <<>>]
ReBoundary   == [t |-> "b",    chars |-> {}, body |-> <<>>, alts |-> <<>>]
ReStar(body) == [t |-> "star", chars |-> {}, body |-> body, alts |-> <<>>]
ReOpt(body)  == [t |-> "opt",  chars |-> {}, body |-> body, alts |-> <<>>]
ReAlt(alts)  == [t |-> "alt",  chars |-> {}, body |-> <<>>, alts |-> alts]
RePlus(body) == body \o <<ReStar(body)>>

WordSet == LowerSet \cup UpperSet \cup DigitSet \cup {"_"}
SpaceSet == {" ", "\n", "\t"}
IsSpace(c) == c \in SpaceSet

\* \b at pos: exactly one of s[pos - 1], s[pos] is a word character
IsBoundary(s, pos) ==
    LET before == pos > 1 /\ pos - 1 <= Len(s) /\ s[pos - 1] \in WordSet
        after  == pos >= 1 /\ pos <= Len(s) /\ s[pos] \in WordSet
    IN  before # after

RECURSIVE ReMatch(_, _, _)
RECURSIVE ReMatchAlts(_, _, _, _, _)
ReMatch(items, s, pos) ==
    IF Len(items) = 0 THEN pos
    ELSE LET h == Head(items)
             rest == Tail(items)
         IN  CASE h.t = "set" ->
                    IF pos <= Len(s) /\ s[pos] \in h.chars
                    THEN ReMatch(rest, s, pos + 1) ELSE -1
               [] h.t = "b" ->
                    IF IsBoundary(s, pos) THEN ReMatch(rest, s, pos) ELSE -1
               [] h.t = "star" ->
                    LET more == ReMatch(h.body \o <<h>> \o rest, s, pos)
                    IN  IF more # -1 THEN more ELSE ReMatch(rest, s, pos)
               [] h.t = "opt" ->
                    LET with == ReMatch(h.body \o rest, s, pos)
                    IN  IF with # -1 THEN with ELSE ReMatch(rest, s, pos)
               [] OTHER -> ReMatchAlts(h.alts, 1, rest, s, pos)

ReMatchAlts(alts, k, rest, s, pos) ==
    IF k > Len(alts) THEN -1
    ELSE LET r == ReMatch(alts[k] \o rest, s, pos)
         IN  IF r # -1 THEN r ELSE ReMatchAlts(alts, k + 1, rest, s, pos)

\* [m.group() for m in pattern.finditer(s)], from position i on
RECURSIVE finditer(_, _, _)
finditer(pattern, s, i) ==
    LET starts == {k \in i..Len(s) : ReMatch(pattern, s, k) \notin {-1, k}}
    IN  IF starts = {} THEN <<>>
        ELSE LET k == CHOOSE k \in starts : \A j \in starts : k <= j
                 e == ReMatch(pattern, s, k)
             IN  <<SubSeq(s, k, e - 1)>> \o finditer(pattern, s, e)

\* a literal word under re.IGNORECASE
UpperChar(c) ==
    IF IsLower(c) THEN UpperLetters[CHOOSE i \in DOMAIN LowerLetters : LowerLetters[i] = c]
    ELSE c
ReWordI(w) == [i \in DOMAIN w |-> ReSet({LowerChar(w[i]), UpperChar(w[i])})]

(***************************************************************************)
(* guardrails.py: the entity patterns and _extract_entities.               *)
(***************************************************************************)
\* \d+[\.\,]?\d*
ReNumber == RePlus(<<ReSet(DigitSet)>>) \o <<ReOpt(<<ReSet({".", ","})>>), ReStar(<<ReSet(DigitSet)>>)>>

UnitWords ==
    <<<<"m", "g">>, <<"k", "g">>, <<"m", "l">>, <<"m", "i", "n">>, <<"h", "o", "u", "r">>,
      <<"w", "e", "e", "k">>, <<"y", "e", "a", "r">>, <<"d", "a", "y">>,
      <<"m", "o", "n", "t", "h">>>>

_NUMBER_PATTERN ==
    <<ReAlt(<<
        <<ReBoundary>> \o ReNumber \o <<ReStar(<<ReSet(SpaceSet)>>), ReSet({"%"})>>,
        <<ReBoundary>> \o ReNumber \o
            <<ReStar(<<ReSet(SpaceSet)>>),
              ReAlt([i \in DOMAIN UnitWords |-> ReWordI(UnitWords[i])]),
              ReBoundary>>,
        <<ReBoundary>> \o ReNumber \o <<ReSet({"-"})>> \o ReNumber \o <<ReBoundary>>
    >>)>>

\* \b[A-Z][A-Z0-9]{1,}[-/]?[A-Z0-9]*\b
_GENE_PATTERN ==
    <<ReBoundary, ReSet(UpperSet)>> \o RePlus(<<ReSet(UpperSet \cup DigitSet)>>) \o
    <<ReOpt(<<ReSet({"-", "/"})>>), ReStar(<<ReSet(UpperSet \cup DigitSet)>>), ReBoundary>>

\* \b(?:[A-Z][a-z]+(?:\s+[A-Z][a-z]+)+)\b
CapWord == <<ReSet(UpperSet)>> \o RePlus(<<ReSet(LowerSet)>>)
_PROPER_NOUN_PATTERN ==
    <<ReBoundary>> \o CapWord \o RePlus(RePlus(<<ReSet(SpaceSet)>>) \o CapWord) \o
    <<ReBoundary>>

\* str.strip()
RECURSIVE lstrip(_)
lstrip(s) == IF s # <<>> /\ IsSpace(s[1]) THEN lstrip(Tail(s)) ELSE s
RECURSIVE rstrip(_)
rstrip(s) == IF s # <<>> /\ IsSpace(s[Len(s)]) THEN rstrip(SubSeq(s, 1, Len(s) - 1)) ELSE s
strip(s) == rstrip(lstrip(s))

GeneStopList ==
    {<<"N", "O", "T">>, <<"A", "N", "D">>, <<"B", "U", "T">>, <<"T", "H", "E">>,
     <<"F", "O", "R">>, <<"A", "R", "E">>, <<"W", "A", "S">>, <<"H", "A", "S">>,
     <<"H", "A", "D">>, <<"A", "L", "L">>, <<"C", "A", "N">>, <<"M", "A", "Y">>,
     <<"U", "S", "E">>, <<"S", "E", "T">>}

_extract_entities(text) ==
    LET numbers == finditer(_NUMBER_PATTERN, text, 1)
        genes   == finditer(_GENE_PATTERN, text, 1)
        propers == finditer(_PROPER_NOUN_PATTERN, text, 1)
    IN  {strip(numbers[i]) : i \in DOMAIN numbers}
        \cup {v \in {strip(genes[i]) : i \in DOMAIN genes} :
                Len(v) >= 3 /\ v \notin GeneStopList}
        \cup {strip(propers[i]) : i \in DOMAIN propers}

(***************************************************************************)
(* guardrails.py: entity_check.                                            *)
(***************************************************************************)
\* s.split(sep) for a one-character separator, from position i with the
\* current piece starting at `start`
RECURSIVE SplitOn(_, _, _, _)
SplitOn(s, sep, start, i) ==
    LET at == {k \in i..Len(s) : s[k] = sep}
    IN  IF at = {} THEN <<SubSeq(s, start, Len(s))>>
        ELSE LET k == CHOOSE k \in at : \A j \in at : k <= j
             IN  <<SubSeq(s, start, k - 1)>> \o SplitOn(s, sep, k + 1, k + 1)
split(s, sep) == SplitOn(s, sep, 1, 1)

\* re.split(r"(?<=[.!?])\s+", line)
RECURSIVE SplitSentencesFrom(_, _, _)
SplitSentencesFrom(line, start, i) ==
    LET at == {k \in i..Len(line) :
                k > 1 /\ line[k - 1] \in {".", "!", "?"} /\ IsSpace(line[k])}
    IN  IF at = {} THEN <<SubSeq(line, start, Len(line))>>
        ELSE LET k == CHOOSE k \in at : \A j \in at : k <= j
                 e == RunEnd(line, SpaceSet, k)
             IN  <<SubSeq(line, start, k - 1)>> \o SplitSentencesFrom(line, e + 1, e + 1)
split_sentences(line) == SplitSentencesFrom(line, 1, 1)

\* the code points of the alphabet, in increasing order
AsciiOrder ==
    <<"\t", "\n", " ", "!", "%", ",", "-", ".", "/">> \o Digits \o <<"?">> \o UpperLetters \o
    <<"_">> \o LowerLetters
CharRank(c) == CHOOSE i \in DOMAIN AsciiOrder : AsciiOrder[i] = c

\* a < b for Python strings
RECURSIVE StrLess(_, _)
StrLess(a, b) ==
    IF b = <<>> THEN FALSE
    ELSE IF a = <<>> THEN TRUE
    ELSE IF a[1] # b[1] THEN CharRank(a[1]) < CharRank(b[1])
    ELSE StrLess(Tail(a), Tail(b))

\* sorted(S) for a set of strings
sorted_set(S) ==
    CHOOSE o \in Orderings(S) : \A i, j \in DOMAIN o : i < j => StrLess(o[i], o[j])

\* "ent in sentence or ent.lower() in sentence.lower()"
Mentions(text, ent) == contains(text, ent) \/ contains(lower(text), lower(ent))

Ungrounded(answer, context_text) ==
    {ent \in _extract_entities(answer) : ~Mentions(context_text, ent)}

\* the sentences of one line that mention an ungrounded entity
HasUngrounded(sentence, ungrounded) == \E ent \in ungrounded : Mentions(sentence, ent)

\* stripped_sentences, over the lines from the k-th on
RECURSIVE StrippedSentences(_, _, _)
StrippedSentences(lines, ungrounded, k) ==
    IF k > Len(lines) THEN <<>>
    ELSE LET sentences == split_sentences(lines[k])
             Bad(x) == HasUngrounded(x, ungrounded)
             bad == SelectSeq(sentences, Bad)
         IN  [i \in DOMAIN bad |-> strip(bad[i])] \o StrippedSentences(lines, ungrounded, k + 1)

\* kept_lines, over the lines from the k-th on
RECURSIVE KeptLines(_, _, _)
KeptLines(lines, ungrounded, k) ==
    IF k > Len(lines) THEN <<>>
    ELSE LET sentences == split_sentences(lines[k])
             Good(x) == ~HasUngrounded(x, ungrounded)
             kept_in_line == SelectSeq(sentences, Good)
         IN  (IF kept_in_line # <<>> THEN <<join(<<" ">>, kept_in_line)>>
              ELSE IF strip(lines[k]) = <<>> THEN <<<<>>>>
              ELSE <<>>) \o KeptLines(lines, ungrounded, k + 1)

\* a faulty floor: the two lengths are compared the wrong way round
KeepsEnoughSwapped(cleaned_len, answer_len) == 10 * answer_len >= 3 * cleaned_len

\* a faulty floor: exactly 30% remaining counts as too little
KeepsEnoughStrict(cleaned_len, answer_len) == 10 * cleaned_len > 3 * answer_len

\* len(cleaned_answer) >= len(response.answer) * 0.3 (the float product
\* decides as the exact one does for every length below 2000)
KeepsEnough(cleaned_len, answer_len) == 10 * cleaned_len >= 3 * answer_len

\* a faulty filter: an Answer it strips or flags leaves with confidence low
entity_check_harsh(resp, context_text) ==
    LET ungrounded == Ungrounded(resp.answer, context_text)
        lines == split(resp.answer, "\n")
        stripped_sentences == StrippedSentences(lines, ungrounded, 1)
    IN  IF resp.no_evidence \/ ungrounded = {} \/ stripped_sentences = <<>> THEN resp
        ELSE [resp EXCEPT !.confidence = "low"]

\* a faulty filter: an answer that names entities is flagged even when the
\* context holds them all
entity_check_flagging(resp, context_text) ==
    IF resp.no_evidence \/ _extract_entities(resp.answer) = {} THEN resp
    ELSE [resp EXCEPT !.caveats = Append(@, Caveat("entity_check", 0, <<>>))]

entity_check(resp, context_text) ==
    LET ungrounded == Ungrounded(resp.answer, context_text)
        lines == split(resp.answer, "\n")
        stripped_sentences == StrippedSentences(lines, ungrounded, 1)
        kept_lines == KeptLines(lines, ungrounded, 1)
        cleaned_answer == strip(join(<<"\n">>, kept_lines))
        terms == Take(sorted_set(ungrounded), 5)
        downgraded == IF resp.confidence = "high" THEN "medium" ELSE resp.confidence
    IN  IF resp.no_evidence THEN resp
        ELSE IF ungrounded = {} THEN resp
        ELSE IF stripped_sentences = <<>> THEN resp
        ELSE IF KeepsEnough(Len(cleaned_answer), Len(resp.answer))
        THEN [resp EXCEPT
                !.answer = cleaned_answer,
                !.caveats = Append(@, Caveat("entity_guard", Len(stripped_sentences), terms)),
                !.confidence = downgraded]
        ELSE [resp EXCEPT
                !.caveats = Append(@, Caveat("entity_check", Cardinality(ungrounded), terms)),
                !.confidence = downgraded]

(***************************************************************************)
(* generator.py: RAGGenerator.generate.  `llm_output` is the RAGResponse   *)
(* the structured-output call returned.  The fixed answers are given by    *)
(* their opening words.                                                    *)
(***************************************************************************)
NO_EVIDENCE_TEXT == <<"I", " ", "c", "o", "u", "l", "d", " ", "n", "o", "t", " ", "f", "i", "n", "d", " ", "s", "u", "f", "f", "i", "c", "i", "e", "n", "t", " ", "e", "v", "i", "d", "e", "n", "c", "e", ".">>
GATE_REASON_TEXT == <<"T", "h", "e", " ", "r", "e", "t", "r", "i", "e", "v", "e", "d", " ", "p", "a", "s", "s", "a", "g", "e", "s", " ", "d", "o", " ", "n", "o", "t", " ", "c", "o", "v", "e", "r", " ", "t", "h", "e", " ", "q", "u", "e", "r", "y", ".">>

GenerateCallsService(rr) == rr.has_sufficient_evidence

generate(query, rr, llm_output) ==
    IF ~rr.has_sufficient_evidence
    THEN RAGResponse(NO_EVIDENCE_TEXT, <<>>, "low",
                     "No chunks met the similarity threshold.", TRUE, <<>>)
    ELSE llm_output

(***************************************************************************)
(* pipeline.py: QueryLogger.log and RAGPipeline._no_evidence_response.     *)
(***************************************************************************)
\* a faulty fixed answer: the no_evidence flag is left at its default
no_evidence_response_unflagged(reason) ==
    RAGResponse(IF reason # None THEN reason[1] ELSE NO_EVIDENCE_TEXT, <<>>, "low",
                "Insufficient evidence in retrieved context.", FALSE, <<>>)

_no_evidence_response(reason) ==
    RAGResponse(IF reason # None THEN reason[1] ELSE NO_EVIDENCE_TEXT, <<>>, "low",
                "Insufficient evidence in retrieved context.", TRUE, <<>>)

\* the entry QueryLogger.log serialises and appends as one line
LogEntry(query, rr, resp) ==
    [query |-> query,
     retrieval |->
        [total_candidates |-> rr.all_candidates,
         above_threshold |-> rr.above_threshold,
         has_sufficient_evidence |-> rr.has_sufficient_evidence,
         returned_chunks |-> [i \in DOMAIN rr.chunks |-> rr.chunks[i].chunk_id]],
     response |-> resp]

\* context_text = "\n".join(c.text for c in retrieval.chunks)
ContextText(rr) == join(<<"\n">>, [i \in DOMAIN rr.chunks |-> rr.chunks[i].text])

(***************************************************************************)
(* evaluator.py: what evaluate_single computes from the returned Answer    *)
(* and pipeline._last_retrieval.                                           *)
(***************************************************************************)
\* a fraction (numerator, denominator)
citation_precision(resp, retrieved_ids) ==
    IF resp.citations = <<>> THEN (IF resp.no_evidence THEN <<1, 1>> ELSE <<0, 1>>)
    ELSE <<Cardinality({i \in DOMAIN resp.citations :
                            resp.citations[i].chunk_id \in retrieved_ids}),
           Len(resp.citations)>>

\* a faulty evaluator: the judge is asked whatever the Answer says
JudgeContextAlways(resp, context) == Some(context)

\* the context the judge model is asked to verify the answer against;
\* None when faithfulness_check returns without asking it
JudgeContext(resp, context) == IF resp.no_evidence THEN None ELSE Some(context)

evaluate_single(resp, rr) ==
    LET retrieved_ids == IdsOf(rr.chunks)
        context_text == join(<<"\n">>,
            [i \in DOMAIN rr.chunks |->
                <<"-", "-", "-", " ", "C", "H", "U", "N", "K", " ">> \o rr.chunks[i].chunk_id \o
                <<" ", "(", "s", "o", "u", "r", "c", "e", ":", " ">> \o rr.chunks[i].source_id \o
                <<",", " ", "s", "e", "c", "t", "i", "o", "n", ":", " ">> \o rr.chunks[i].section \o
                <<")", " ", "-", "-", "-">> \o <<"\n">> \o rr.chunks[i].text])
    IN  [confidence |-> resp.confidence,
         no_evidence |-> resp.no_evidence,
         num_citations |-> Len(resp.citations),
         citation_precision |-> citation_precision(resp, retrieved_ids),
         judged_against |-> JudgeContext(resp, context_text)]

(***************************************************************************)
(* Inputs: what a generator can return and what a retrieval can hold.      *)
(***************************************************************************)
\* identifiers a generator may cite: exact, truncated to a suffix shared by
\* two chunks, truncated to a suffix of one chunk, empty, invented
RawIds ==
    {ID_A1, <<"0", "0", "1">>, <<"b">> \o SEP \o <<"0", "0", "2">>, <<>>, <<"z", "9">>}

RawCitations == {Citation(<<"a">>, r) : r \in RawIds}

SeqsUpTo(S, n) == UNION {[1..k -> S] : k \in 0..n}

GenCaveat == Caveat("generator", 0, <<>>)

AnswerTexts == {<<"o", "k", ".">>}

GeneratorOutputs ==
    {RAGResponse(a, c, conf, "llm", noev, cav) :
        a \in AnswerTexts, c \in SeqsUpTo(RawCitations, MaxCites),
        conf \in Confidences, noev \in BOOLEAN, cav \in {<<>>, <<GenCaveat>>}}

\* one chunk list per set of corpus chunks
SetToSeq(S) == CHOOSE o \in Orderings(S) : TRUE

ChunkLists ==
    {[i \in 1..Cardinality(S) |->
        RetrievedChunk(SetToSeq(S)[i], <<SetToSeq(S)[i][1]>>, <<"b">>,
                       DocText(SetToSeq(S)[i]), ScoreUnit, 0, 6 * ScoreUnit)] :
     S \in SUBSET CorpusIds}

(***************************************************************************)
(* SpecVerify: verify_citations on any Answer and any supplied chunk list, *)
(* run again on its own result, and run independently on the same input.   *)
(***************************************************************************)
others == <<weights, vector_results, bm25_results, last_retrieval, log, calls, evaluation,
            gate_passed, fused, candidates, rerank_outcome, config,
          harness, threads, pipelines, futures, results, log_file, runs>>

InitVerify ==
    /\ pc = "verify"
    /\ question = <<>>
    /\ \E chunks \in ChunkLists :
         retrieval = RetrievalResult(<<>>, chunks, Len(chunks), Len(chunks), TRUE)
    /\ generated \in GeneratorOutputs
    /\ response = generated
    /\ verified = <<>>
    /\ replay = None
    /\ weights = None
    /\ vector_results = <<>>
    /\ bm25_results = <<>>
    /\ last_retrieval = None
    /\ log = <<>>
    /\ calls = <<>>
    /\ evaluation = None
    /\ gate_passed = None
    /\ fused = <<>>
    /\ candidates = <<>>
    /\ rerank_outcome = None
    /\ config = None
    /\ NoHarness

\* verify_citations(response, retrieval), on the last result
Verify ==
    /\ pc = "verify"
    /\ Len(verified) < 2
    /\ \E order \in Orderings(RetrievedIds(retrieval)) :
         /\ response' = verify_citations(response, retrieval, order)
         /\ verified' = Append(verified, response')
    /\ UNCHANGED <<pc, question, retrieval, generated, replay, others>>

\* verify_citations(generated, retrieval) in another execution
Replay ==
    /\ pc = "verify"
    /\ replay = None
    /\ \E order \in Orderings(RetrievedIds(retrieval)) :
         replay' = Some(verify_citations(generated, retrieval, order))
    /\ UNCHANGED <<pc, question, retrieval, generated, response, verified, others>>

NextVerify == Verify \/ Replay

SpecVerify == InitVerify /\ [][NextVerify]_vars

\* C2: when the verifier drops at least one citation it appends exactly one
\* caveat holding the count and the identifiers of the dropped citations and
\* lowers a confidence of high to medium, leaving medium and low as they
\* are; when it drops none, caveats and confidence are unchanged.
VerifierCaveatRule ==
    Len(verified) >= 1 =>
        LET before == generated
            after == verified[1]
            ids == {retrieval.chunks[i].chunk_id : i \in DOMAIN retrieval.chunks}
            Unresolvable(c) ==
                c.chunk_id \notin ids /\ \A rid \in ids : ~endswith(rid, c.chunk_id)
            dropped == SelectSeq(before.citations, Unresolvable)
        IN  /\ Len(after.citations) = Len(before.citations) - Len(dropped)
            /\ IF dropped # <<>>
               THEN /\ after.caveats =
                        Append(before.caveats,
                               Caveat("removed_citations", Len(dropped),
                                      [i \in DOMAIN dropped |-> dropped[i].chunk_id]))
                    /\ after.confidence =
                        (IF before.confidence = "high" THEN "medium" ELSE before.confidence)
               ELSE /\ after.caveats = before.caveats
                    /\ after.confidence = before.confidence

\* a high-confidence Answer with two citations, one kept and one dropped
VerifierDropsOneOfTwo ==
    /\ Len(verified) >= 1
    /\ generated.confidence = "high"
    /\ verified[1].confidence = "medium"
    /\ Len(generated.citations) = 2
    /\ Len(verified[1].citations) = 1
    /\ Len(verified[1].caveats) = Len(generated.caveats) + 1

\* C3: running verify_citations on its own result with the same
\* RetrievalResult changes nothing: no citation dropped, no caveat appended,
\* no chunk_id rewritten, confidence as it was.
VerifierIdempotent == Len(verified) = 2 => verified[2] = verified[1]

\* the second run follows a first run that dropped one citation and rewrote
\* the other to a supplied identifier
SecondRunAfterRepair ==
    /\ Len(verified) = 2
    /\ Len(generated.citations) = 2
    /\ Len(verified[1].citations) = 1
    /\ verified[1].citations[1].chunk_id \notin
            {generated.citations[i].chunk_id : i \in DOMAIN generated.citations}

\* C4: for a fixed Answer and a fixed set of supplied identifiers the
\* verifier's result is uniquely determined: two executions on the same
\* input resolve every citation to the same identifier and drop the same
\* citations.
ResolutionDeterministic ==
    (replay # None /\ Len(verified) >= 1) => replay[1] = verified[1]

(***************************************************************************)
(* Spec: one call of RAGPipeline.query, stage by stage, followed by the    *)
(* caller (Evaluator.evaluate_single) reading the result.  The answers of  *)
(* the two indexes, of the scoring service and of the generator are        *)
(* inputs.                                                                 *)
(***************************************************************************)
Q_AMPK == <<"D", "o", "e", "s", " ", "A", "M", "P", "K", " ", "h", "e", "l", "p", "?">>
Questions == {Q_AMPK}

\* the caller's weights: the defaults, or vector-only as the evaluation passes
WeightChoices == {[vector_weight |-> None, bm25_weight |-> None],
                  [vector_weight |-> Some(10), bm25_weight |-> Some(0)]}

\* L2 distances 1 and 4: similarity 0.5 (above the floor) and 0.2 (below)
PipeDistances == {1, 4}

\* (chunk_id, dist) lists of at most n distinct chunks
VectorResultsOver(ids, dists, n) ==
    {v \in SeqsUpTo([chunk_id : ids, dist : dists], n) :
        \A i, j \in DOMAIN v : i # j => v[i].chunk_id # v[j].chunk_id}

\* ranked lists of at most n distinct chunks
Bm25ResultsOver(ids, n) ==
    {b \in SeqsUpTo(ids, n) : \A i, j \in DOMAIN b : i # j => b[i] # b[j]}

\* what the scoring call can do for these chunks: raise (None), or return
\* scores for some of them
Relevances == {0, 7, 10}
RerankOutcomes(chunks) ==
    {None} \cup {Some(m) : m \in UNION {[T -> Relevances] : T \in SUBSET IdsOf(chunks)}}

A_GROUNDED == <<"A", "M", "P", "K", " ", "u", "p", ".">>
A_MIXED    == <<"A", "M", "P", "K", " ", "u", "p", ".", " ", "S", "I", "R", "T", "1", " ", "t", "o", "o", ".">>
PipeAnswerTexts == {A_GROUNDED, A_MIXED}

\* cited identifiers: exact, truncated to a suffix of two chunks, invented
PipeRawCitations ==
    {Citation(<<"a">>, r) : r \in {ID_A1, <<"0", "0", "1">>, <<"z", "9">>}}

PipeGeneratorOutputs ==
    {RAGResponse(a, c, conf, "llm", noev, cav) :
        a \in PipeAnswerTexts, c \in SeqsUpTo(PipeRawCitations, MaxPipeCites),
        conf \in Confidences, noev \in BOOLEAN, cav \in {<<>>, <<GenCaveat>>}}

Init ==
    /\ pc = "start"
    /\ question \in Questions
    /\ weights \in WeightChoices
    /\ retrieval = None
    /\ generated = None
    /\ response = None
    /\ verified = <<>>
    /\ replay = None
    /\ vector_results = <<>>
    /\ bm25_results = <<>>
    /\ last_retrieval = None
    /\ log = <<>>
    /\ calls = <<>>
    /\ evaluation = None
    /\ gate_passed = None
    /\ fused = <<>>
    /\ candidates = <<>>
    /\ rerank_outcome = None
    /\ config = None
    /\ NoHarness

unused == <<replay, vector_results, bm25_results, gate_passed, fused, candidates,
           rerank_outcome, config,
          harness, threads, pipelines, futures, results, log_file, runs>>

\* pipeline.py 97-102: retriever.retrieve(question, vector_weight, bm25_weight)
Retrieve ==
    /\ pc = "start"
    /\ \E vres \in VectorResultsOver(CorpusIds, PipeDistances, MaxVecResults),
          bres \in Bm25ResultsOver(CorpusIds, MaxBm25Results) :
         \E order \in Orderings(AllIds(vres, bres)) :
            retrieval' = Some(retrieve(question, weights.vector_weight,
                                       weights.bm25_weight, vres, bres, order))
    /\ calls' = calls \o <<"vector_search", "bm25_search">>
    /\ pc' = "fused"
    /\ UNCHANGED <<question, weights, generated, response, last_retrieval, log,
                   evaluation, verified, unused>>

\* a faulty retrieval failure: the call answers as if nothing had been found
RetrieveFailsAsNoEvidence ==
    /\ pc = "start"
    /\ \E failing \in {<<"vector_search">>, <<"vector_search", "bm25_search">>} :
         calls' = calls \o failing
    /\ response' = Some(_no_evidence_response(None))
    /\ pc' = "failed"
    /\ UNCHANGED <<question, weights, retrieval, generated, last_retrieval,
                   log, evaluation, verified, unused>>

\* an index is unreachable: the exception leaves query()
RetrieveFails ==
    /\ pc = "start"
    /\ \E failing \in {<<"vector_search">>, <<"vector_search", "bm25_search">>} :
         calls' = calls \o failing
    /\ pc' = "failed"
    /\ UNCHANGED <<question, weights, retrieval, generated, response, last_retrieval,
                   log, evaluation, verified, unused>>

\* pipeline.py 104-110
NoEvidenceAtFusion ==
    /\ pc = "fused"
    /\ ~retrieval[1].has_sufficient_evidence
    /\ last_retrieval' = retrieval
    /\ response' = Some(_no_evidence_response(None))
    /\ log' = Append(log, LogEntry(question, retrieval[1], response'[1]))
    /\ calls' = Append(calls, "log")
    /\ pc' = "done"
    /\ UNCHANGED <<question, weights, retrieval, generated, evaluation, verified, unused>>

\* pipeline.py 112-114: rerank, keep the top final_k
Rerank ==
    /\ pc = "fused"
    /\ retrieval[1].has_sufficient_evidence
    /\ \E outcome \in RerankOutcomes(retrieval[1].chunks) :
         /\ retrieval' = Some([retrieval[1] EXCEPT
                !.chunks = Take(rerank(question, retrieval[1].chunks, outcome), final_k)])
         /\ calls' = calls \o
                (IF ~RerankCallsService(retrieval[1].chunks) THEN <<"rerank">>
                 ELSE IF outcome = None THEN <<"rerank", "score_relevance", "scoring_failed">>
                 ELSE <<"rerank", "score_relevance">>)
    /\ pc' = "reranked"
    /\ UNCHANGED <<question, weights, generated, response, last_retrieval, log,
                   evaluation, verified, unused>>

\* pipeline.py 117
Expand ==
    /\ pc = "reranked"
    /\ retrieval' = Some(expand_chunks(retrieval[1], _chunk_index, chunk_expand_window,
                                       max_chunks_after_expand))
    /\ calls' = Append(calls, "expand")
    /\ pc' = "expanded"
    /\ UNCHANGED <<question, weights, generated, response, last_retrieval, log,
                   evaluation, verified, unused>>

\* a faulty gate failure: the RetrievalResult keeps its flag
GateFailsKeepingFlag ==
    /\ pc = "expanded"
    /\ ~topic_presence_check(question, retrieval[1].chunks, 2)
    /\ last_retrieval' = retrieval
    /\ response' = Some(_no_evidence_response(Some(GATE_REASON_TEXT)))
    /\ log' = Append(log, LogEntry(question, retrieval[1], response'[1]))
    /\ calls' = calls \o <<"gate", "log">>
    /\ pc' = "done"
    /\ UNCHANGED <<question, weights, retrieval, generated, evaluation, verified, unused>>

\* pipeline.py 120-131: the topic presence check fails
GateFails ==
    /\ pc = "expanded"
    /\ ~topic_presence_check(question, retrieval[1].chunks, 2)
    /\ retrieval' = Some([retrieval[1] EXCEPT !.has_sufficient_evidence = FALSE])
    /\ last_retrieval' = retrieval'
    /\ response' = Some(_no_evidence_response(Some(GATE_REASON_TEXT)))
    /\ log' = Append(log, LogEntry(question, retrieval'[1], response'[1]))
    /\ calls' = calls \o <<"gate", "log">>
    /\ pc' = "done"
    /\ UNCHANGED <<question, weights, generated, evaluation, verified, unused>>

\* pipeline.py 120, 133: the check passes
GatePasses ==
    /\ pc = "expanded"
    /\ topic_presence_check(question, retrieval[1].chunks, 2)
    /\ last_retrieval' = retrieval
    /\ calls' = Append(calls, "gate")
    /\ pc' = "generating"
    /\ UNCHANGED <<question, weights, retrieval, generated, response, log,
                   evaluation, verified, unused>>

\* pipeline.py 136
Generate ==
    /\ pc = "generating"
    /\ \E llm_output \in PipeGeneratorOutputs :
         response' = Some(generate(question, retrieval[1], llm_output))
    /\ generated' = response'
    /\ calls' = IF GenerateCallsService(retrieval[1])
                THEN Append(calls, "generate") ELSE calls
    /\ pc' = "generated"
    /\ UNCHANGED <<question, weights, retrieval, last_retrieval, log, evaluation, verified, unused>>

\* a faulty pipeline: a failed generation is tried again
GenerateFailsAndRetries ==
    /\ pc = "generating"
    /\ GenerateCallsService(retrieval[1])
    /\ calls' = Append(calls, "generate")
    /\ pc' = "generating"
    /\ UNCHANGED <<question, weights, retrieval, generated, response, last_retrieval,
                   log, evaluation, verified, unused>>

\* the generation call raises or returns malformed output
GenerateFails ==
    /\ pc = "generating"
    /\ GenerateCallsService(retrieval[1])
    /\ calls' = Append(calls, "generate")
    /\ pc' = "failed"
    /\ UNCHANGED <<question, weights, retrieval, generated, response, last_retrieval,
                   log, evaluation, verified, unused>>

\* pipeline.py 139
VerifyCitations ==
    /\ pc = "generated"
    /\ \E order \in Orderings(RetrievedIds(retrieval[1])) :
         response' = Some(verify_citations(response[1], retrieval[1], order))
    /\ verified' = <<response'[1]>>
    /\ calls' = Append(calls, "verify_citations")
    /\ pc' = "verified"
    /\ UNCHANGED <<question, weights, retrieval, generated, last_retrieval, log,
                   evaluation, unused>>

\* pipeline.py 142-143
EntityCheck ==
    /\ pc = "verified"
    /\ response' = Some(entity_check(response[1], ContextText(retrieval[1])))
    /\ calls' = Append(calls, "entity_check")
    /\ pc' = "checked"
    /\ UNCHANGED <<question, weights, retrieval, generated, last_retrieval, log,
                   evaluation, verified, unused>>

\* pipeline.py 146-149
LogAnswer ==
    /\ pc = "checked"
    /\ log' = Append(log, LogEntry(question, retrieval[1], response[1]))
    /\ calls' = Append(calls, "log")
    /\ pc' = "done"
    /\ UNCHANGED <<question, weights, retrieval, generated, response, last_retrieval,
                   evaluation, verified, unused>>

\* evaluator.py 84-121: the caller reads pipeline._last_retrieval and scores
EvaluateSingle ==
    /\ pc = "done"
    /\ evaluation' = Some(evaluate_single(response[1], last_retrieval[1]))
    /\ pc' = "evaluated"
    /\ UNCHANGED <<question, weights, retrieval, generated, response, last_retrieval,
                   log, calls, verified, unused>>

Next ==
    \/ Retrieve \/ RetrieveFails \/ NoEvidenceAtFusion \/ Rerank \/ Expand
    \/ GateFails \/ GatePasses \/ Generate \/ GenerateFails
    \/ VerifyCitations \/ EntityCheck \/ LogAnswer \/ EvaluateSingle

Spec == Init /\ [][Next]_vars

\* C1: every citation of an Answer returned with no_evidence false names a
\* chunk that was supplied to the generator for the query, whatever the
\* generator cited.
CitationSoundness ==
    (pc \in {"done", "evaluated"} /\ ~response[1].no_evidence) =>
        \A i \in DOMAIN response[1].citations :
            \E j \in DOMAIN retrieval[1].chunks :
                retrieval[1].chunks[j].chunk_id = response[1].citations[i].chunk_id

\* an Answer is returned whose generator cited an identifier that was not
\* supplied, and the returned Answer still carries a citation
ReturnedWithRepairedCitation ==
    /\ pc = "done"
    /\ generated # None
    /\ ~response[1].no_evidence
    /\ generated[1].citations # <<>>
    /\ generated[1].citations[1].chunk_id \notin IdsOf(retrieval[1].chunks)
    /\ response[1].citations # <<>>

\* C5: the returned Answer's confidence is never above the generator's
\* (high > medium > low), and each guardrail either leaves the confidence
\* or takes it from high to medium.
ConfidenceMonotone ==
    LET Rank(c) == CASE c = "high" -> 3 [] c = "medium" -> 2 [] OTHER -> 1
        Step(a, b) ==
            \/ b.confidence = a.confidence
            \/ a.confidence = "high" /\ b.confidence = "medium"
    IN  generated # None =>
            /\ Rank(response[1].confidence) <= Rank(generated[1].confidence)
            /\ verified # <<>> => Step(generated[1], verified[1])
            /\ pc \in {"checked", "done", "evaluated"} => Step(verified[1], response[1])

\* both guardrails acted on a high-confidence Answer: the verifier dropped
\* a citation, the entity filter stripped or flagged
BothGuardrailsActed ==
    /\ pc = "done"
    /\ generated # None
    /\ generated[1].confidence = "high"
    /\ verified[1].confidence = "medium"
    /\ Len(verified[1].caveats) = Len(generated[1].caveats) + 1
    /\ Len(response[1].caveats) = Len(generated[1].caveats) + 2
    /\ response[1].confidence = "medium"

\* C6: when no fused candidate survives the similarity floor (in particular
\* when both searches return nothing) the returned Answer has no_evidence
\* true, no citations and confidence low, and neither the reranker nor the
\* generator was called.
NoEvidenceWhenNothingSurvives ==
    (pc \in {"done", "evaluated"} /\ retrieval[1].above_threshold = 0) =>
        /\ response[1].no_evidence
        /\ response[1].citations = <<>>
        /\ response[1].confidence = "low"
        /\ \A i \in DOMAIN calls :
              calls[i] \notin {"rerank", "score_relevance", "generate"}

\* both searches returned empty lists and the query has returned
ReturnedAfterEmptySearches ==
    /\ pc = "done"
    /\ retrieval[1].all_candidates = 0
    /\ response[1].no_evidence

\* C7: when the Evidence Gate fails on the expanded chunk list, the
\* RetrievalResult's has_sufficient_evidence is false, the returned Answer
\* is the fixed one (confidence low, no_evidence true, no citations) and
\* neither the generator nor the Citation Verifier nor the Entity Grounding
\* Filter was called.
GateFailureShortCircuits ==
    (/\ pc \in {"done", "evaluated"}
     /\ \E i \in DOMAIN calls : calls[i] = "gate"
     /\ ~topic_presence_check(question, retrieval[1].chunks, 2)) =>
        /\ ~retrieval[1].has_sufficient_evidence
        /\ ~last_retrieval[1].has_sufficient_evidence
        /\ response[1].confidence = "low"
        /\ response[1].no_evidence
        /\ response[1].citations = <<>>
        /\ response[1].answer = GATE_REASON_TEXT
        /\ \A i \in DOMAIN calls :
              calls[i] \notin {"generate", "verify_citations", "entity_check"}

\* the gate failed on a non-empty expanded chunk list
ReturnedAfterGateFailure ==
    /\ pc = "done"
    /\ \E i \in DOMAIN calls : calls[i] = "gate"
    /\ retrieval[1].chunks # <<>>
    /\ ~topic_presence_check(question, retrieval[1].chunks, 2)

MaxQueryWords == 9
MaxGateChunks == 2

GateWords ==
    <<<<"A", "M", "P", "K">>,
      <<"t", "a", "u">>,
      <<"m", "T", "O", "R">>,
      <<"N", "A", "D">>,
      <<"p", "5", "3">>,
      <<"S", "I", "R", "T", "1">>,
      <<"I", "G", "F", "-", "1">>,
      <<"F", "O", "X", "O", "3">>,
      <<"T", "E", "R", "T">>,
      <<"k", "l", "o", "t", "h", "o">>>>

\* "Is <the first k words> ok?": "is" is a stop word, "ok" is too short
GateQuery(k) ==
    <<"I", "s", " ">> \o
    join(<<" ">>, SubSeq(GateWords, 1, Min(k, Len(GateWords)))) \o <<" ", "o", "k", "?">>

GateQueries == {GateQuery(k) : k \in 0..MaxQueryWords}

GateTexts ==
    {<<"A", "M", "P", "K", " ", "a", "n", "d", " ", "T", "a", "u", " ", "r", "i", "s", "e", ".">>,
     <<"m", "t", "o", "r">>,
     <<"S", "l", "e", "e", "p", " ", "m", "a", "t", "t", "e", "r", "s", ".">>,
     <<"T", "a", "u", "r", "i", "n", "e", ".">>}

GateChunkLists ==
    {[i \in DOMAIN ts |-> RetrievedChunk(ID_A1, <<"a">>, <<"b">>, ts[i],
                                          ScoreUnit, 0, 6 * ScoreUnit)] :
        ts \in SeqsUpTo(GateTexts, MaxGateChunks)}

InitGate ==
    /\ pc = "gate"
    /\ question \in GateQueries
    /\ \E chunks \in GateChunkLists :
         retrieval = RetrievalResult(question, chunks, Len(chunks), Len(chunks), TRUE)
    /\ gate_passed = None
    /\ generated = None
    /\ response = None
    /\ verified = <<>>
    /\ replay = None
    /\ weights = None
    /\ vector_results = <<>>
    /\ bm25_results = <<>>
    /\ last_retrieval = None
    /\ log = <<>>
    /\ calls = <<>>
    /\ evaluation = None
    /\ fused = <<>>
    /\ candidates = <<>>
    /\ rerank_outcome = None
    /\ config = None
    /\ NoHarness

\* pipeline.py 120: topic_presence_check(question, retrieval.chunks)
TopicPresenceCheck ==
    /\ pc = "gate"
    /\ gate_passed' = Some(topic_presence_check(question, retrieval.chunks, 2))
    /\ pc' = "judged"
    /\ UNCHANGED <<question, retrieval, generated, response, verified, replay, weights,
                   vector_results, bm25_results, last_retrieval, log, calls, evaluation,
                   fused, candidates, rerank_outcome, config,
          harness, threads, pipelines, futures, results, log_file, runs>>

NextGate == TopicPresenceCheck

SpecGate == InitGate /\ [][NextGate]_vars

MaxVecHits == 3
MaxBm25Hits == 2

RetrieveDistances == {1, 3, 4}

RetrieveWeightChoices ==
    {[vector_weight |-> None, bm25_weight |-> None],
     [vector_weight |-> Some(10), bm25_weight |-> Some(0)],
     [vector_weight |-> Some(0), bm25_weight |-> Some(10)],
     [vector_weight |-> Some(5), bm25_weight |-> None]}

InitRetrieve ==
    /\ pc = "retrieve"
    /\ question = Q_AMPK
    /\ weights \in RetrieveWeightChoices
    /\ vector_results \in VectorResultsOver(CorpusIds, RetrieveDistances, MaxVecHits)
    /\ bm25_results \in Bm25ResultsOver(CorpusIds, MaxBm25Hits)
    /\ retrieval = None
    /\ gate_passed = None
    /\ generated = None
    /\ response = None
    /\ verified = <<>>
    /\ replay = None
    /\ last_retrieval = None
    /\ log = <<>>
    /\ calls = <<>>
    /\ evaluation = None
    /\ fused = <<>>
    /\ candidates = <<>>
    /\ rerank_outcome = None
    /\ config = None
    /\ NoHarness

\* retriever.py 55-119
RetrieveOnce ==
    /\ pc = "retrieve"
    /\ \E order \in Orderings(AllIds(vector_results, bm25_results)) :
         /\ retrieval' = Some(retrieve(question, weights.vector_weight,
                                       weights.bm25_weight,
                                       vector_results, bm25_results, order))
         /\ fused' = fuse(call_weights(weights.vector_weight, weights.bm25_weight).vw,
                          call_weights(weights.vector_weight, weights.bm25_weight).bw,
                          vector_results, bm25_results, order)
    /\ pc' = "retrieved"
    /\ UNCHANGED <<question, generated, response, verified, replay, weights,
                   vector_results, bm25_results, last_retrieval, log, calls, evaluation,
                   gate_passed, candidates, rerank_outcome, config,
          harness, threads, pipelines, futures, results, log_file, runs>>

NextRetrieve == RetrieveOnce

SpecRetrieve == InitRetrieve /\ [][NextRetrieve]_vars

\* C10: every chunk retrieve returns has vector_score >= similarity_threshold:
\* it was found by the semantic search at a similarity at or above the
\* floor; a candidate found only by the lexical search is never returned,
\* whatever the weights.
ThresholdInvariant ==
    pc = "retrieved" =>
        \A i \in DOMAIN retrieval[1].chunks :
            /\ retrieval[1].chunks[i].vector_score >= similarity_threshold
            /\ \E j \in DOMAIN vector_results :
                  /\ vector_results[j].chunk_id = retrieval[1].chunks[i].chunk_id
                  /\ 4 * ScoreUnit >= ScoreUnit * (1 + vector_results[j].dist)

\* under lexical-only weights a candidate of the lexical search alone
\* outranks every chunk that was returned
LexicalOnlyOutranksReturned ==
    /\ pc = "retrieved"
    /\ weights.bm25_weight = Some(10)
    /\ retrieval[1].chunks # <<>>
    /\ \E b \in DOMAIN bm25_results :
          bm25_results[b] \notin {vector_results[j].chunk_id : j \in DOMAIN vector_results}

\* C11: the fused candidates are exactly the chunks named by either search,
\* each once; a candidate's vector_score is 1/(1+distance) when the semantic
\* search returned it and 0 otherwise, its bm25_score is 1/(rank+1) when the
\* lexical search returned it and 0 otherwise, and its combined_score is
\* w_vec * vector_score + w_lex * bm25_score, with the caller's weight where
\* one was passed and the configured weight where none was.
FusionCorrectness ==
    pc = "retrieved" =>
        LET vec_ids == {vector_results[j].chunk_id : j \in DOMAIN vector_results}
            lex_ids == {bm25_results[r] : r \in DOMAIN bm25_results}
            w_vec == IF weights.vector_weight = None THEN vector_weight
                     ELSE weights.vector_weight[1]
            w_lex == IF weights.bm25_weight = None THEN bm25_weight
                     ELSE weights.bm25_weight[1]
        IN  /\ {fused[i].chunk_id : i \in DOMAIN fused} = vec_ids \cup lex_ids
            /\ Len(fused) = Cardinality(vec_ids \cup lex_ids)
            /\ retrieval[1].all_candidates = Cardinality(vec_ids \cup lex_ids)
            /\ \A i \in DOMAIN retrieval[1].chunks :
                  \E k \in DOMAIN fused : fused[k] = retrieval[1].chunks[i]
            /\ \A i \in DOMAIN fused :
                  /\ fused[i].combined_score =
                        w_vec * fused[i].vector_score + w_lex * fused[i].bm25_score
                  /\ IF fused[i].chunk_id \in vec_ids
                     THEN \E j \in DOMAIN vector_results :
                            /\ vector_results[j].chunk_id = fused[i].chunk_id
                            /\ fused[i].vector_score * (1 + vector_results[j].dist) = ScoreUnit
                     ELSE fused[i].vector_score = 0
                  /\ IF fused[i].chunk_id \in lex_ids
                     THEN \E r \in DOMAIN bm25_results :
                            /\ bm25_results[r] = fused[i].chunk_id
                            /\ fused[i].bm25_score * r = ScoreUnit
                     ELSE fused[i].bm25_score = 0

\* a retrieval fused one candidate of both searches, one of the semantic
\* search alone and one of the lexical search alone, under a vector weight
\* of 0 passed by the caller
FusedBothAndEitherAlone ==
    /\ pc = "retrieved"
    /\ weights.vector_weight = Some(0)
    /\ \E i, j, k \in DOMAIN fused :
          /\ fused[i].vector_score > 0 /\ fused[i].bm25_score > 0
          /\ fused[j].vector_score > 0 /\ fused[j].bm25_score = 0
          /\ fused[k].vector_score = 0 /\ fused[k].bm25_score > 0

RerankerDegradation ==
    /\ [][(pc = "fused" /\ pc' = "reranked" /\ calls'[Len(calls')] = "scoring_failed") =>
            /\ retrieval'[1].chunks = Take(retrieval[1].chunks, final_k)
            /\ retrieval'[1].chunks = retrieval[1].chunks
                    \/ Len(retrieval[1].chunks) > final_k]_vars
    /\ []((\E i \in DOMAIN calls : calls[i] = "scoring_failed") =>
            /\ pc = "failed" => calls[Len(calls)] = "generate"
            /\ pc \in {"generated", "verified", "checked", "done", "evaluated"} =>
                  /\ \E i \in DOMAIN calls : calls[i] = "expand"
                  /\ \E i \in DOMAIN calls : calls[i] = "gate"
                  /\ response # None)

\* the scoring call failed on two candidates, and the query went on to
\* return a generated Answer
AnsweredAfterScoringFailure ==
    /\ pc = "done"
    /\ \E i \in DOMAIN calls : calls[i] = "scoring_failed"
    /\ retrieval[1].above_threshold > 1
    /\ \E i \in DOMAIN calls : calls[i] = "generate"
    /\ ~response[1].no_evidence

(***************************************************************************)
(* SpecRerank: LLMReranker.rerank on any list of distinct fused candidates *)
(* and anything the scoring call can do: raise, or return scores for any   *)
(* chunk ids, of the list or not.                                          *)
(***************************************************************************)
MaxRerankChunks == 3

\* combined scores of the candidates, two of them equal
RerankScores == {vector_weight * Sim(1), vector_weight * Sim(3)}

RerankInputs ==
    UNION {{[i \in DOMAIN ids |->
                RetrievedChunk(ids[i], <<ids[i][1]>>, <<"b">>, DocText(ids[i]),
                               Sim(1), 0, sc[i])] :
            sc \in [DOMAIN ids -> RerankScores]} :
           ids \in Bm25ResultsOver(CorpusIds, MaxRerankChunks)}

ScoringOutcomes ==
    {None} \cup {Some(m) : m \in UNION {[T -> Relevances] : T \in SUBSET CorpusIds}}

InitRerank ==
    /\ pc = "rerank"
    /\ question = Q_AMPK
    /\ candidates \in RerankInputs
    /\ \E outcome \in ScoringOutcomes : rerank_outcome = Some(outcome)
    /\ retrieval = Some(RetrievalResult(question, candidates, Len(candidates),
                                        Len(candidates), candidates # <<>>))
    /\ generated = None
    /\ response = None
    /\ verified = <<>>
    /\ replay = None
    /\ weights = None
    /\ vector_results = <<>>
    /\ bm25_results = <<>>
    /\ last_retrieval = None
    /\ log = <<>>
    /\ calls = <<>>
    /\ evaluation = None
    /\ gate_passed = None
    /\ fused = <<>>
    /\ config = None
    /\ NoHarness

\* pipeline.py 113: retrieval.chunks = self.reranker.rerank(question, retrieval.chunks)
RerankOnce ==
    /\ pc = "rerank"
    /\ retrieval' = Some([retrieval[1] EXCEPT
            !.chunks = rerank(question, retrieval[1].chunks, rerank_outcome[1])])
    /\ pc' = "reranked"
    /\ UNCHANGED <<question, generated, response, verified, replay, weights,
                   vector_results, bm25_results, last_retrieval, log, calls, evaluation,
                   gate_passed, fused, candidates, rerank_outcome, config,
          harness, threads, pipelines, futures, results, log_file, runs>>

NextRerank == RerankOnce

SpecRerank == InitRerank /\ [][NextRerank]_vars

\* C14: when the scoring call succeeds, what rerank returns holds the chunks
\* it was given, each once and none other, in an order in which every chunk
\* has a relevance at least that of the chunks after it and, at equal
\* relevance, a combined_score at least theirs; the relevance of a chunk is
\* the score the service gave for its chunk_id, and 0 when it gave none.
RerankOrdering ==
    (pc = "reranked" /\ rerank_outcome[1] # None) =>
        LET out == retrieval[1].chunks
            score_map == rerank_outcome[1][1]
            Relevance(c) ==
                IF c.chunk_id \in DOMAIN score_map THEN score_map[c.chunk_id] ELSE 0
        IN  /\ Len(out) = Len(candidates)
            /\ Range(out) = Range(candidates)
            /\ \A i, j \in DOMAIN out :
                  i < j =>
                    \/ Relevance(out[i]) > Relevance(out[j])
                    \/ /\ Relevance(out[i]) = Relevance(out[j])
                       /\ out[i].combined_score >= out[j].combined_score

\* three candidates were reordered: the service scored two of them equally
\* and did not mention the third, and the combined_score decided between
\* the two
RerankedWithTieAndUnmentioned ==
    /\ pc = "reranked"
    /\ rerank_outcome[1] # None
    /\ Len(candidates) = 3
    /\ retrieval[1].chunks # candidates
    /\ Cardinality(DOMAIN rerank_outcome[1][1] \cap IdsOf(candidates)) = 2
    /\ \E i, j \in DOMAIN candidates :
          /\ i < j
          /\ candidates[i].chunk_id \in DOMAIN rerank_outcome[1][1]
          /\ candidates[j].chunk_id \in DOMAIN rerank_outcome[1][1]
          /\ rerank_outcome[1][1][candidates[i].chunk_id] =
                rerank_outcome[1][1][candidates[j].chunk_id]
          /\ candidates[i].combined_score < candidates[j].combined_score

(***************************************************************************)
(* SpecExpand: HybridRetriever.expand_chunks on any list of distinct       *)
(* chunks, with the chunk index loaded or empty (chunks.jsonl absent) and  *)
(* with a chunk_expand_window of 0, 1 or 2.                                *)
(***************************************************************************)
MaxExpandChunks == 4

ID_A3 == MkId(<<"a">>, <<"b">>, <<"0", "0", "3">>)

\* the corpus chunks and one chunk the chunk index does not hold
ExpandIds == CorpusIds \cup {ID_A3}

\* (vector_score, bm25_score) of a retained chunk: found by both searches at
\* distance 1 and rank 0, or by the semantic search alone at distance 3
ExpandScores ==
    {[vector_score |-> Sim(1), bm25_score |-> LexScore(0)],
     [vector_score |-> Sim(3), bm25_score |-> 0]}

ExpandInputs ==
    UNION {{[i \in DOMAIN ids |->
                RetrievedChunk(ids[i], <<ids[i][1]>>, <<"b">>, DocText(ids[i]),
                               sc[i].vector_score, sc[i].bm25_score,
                               vector_weight * sc[i].vector_score
                                    + bm25_weight * sc[i].bm25_score)] :
            sc \in [DOMAIN ids -> ExpandScores]} :
           ids \in Bm25ResultsOver(ExpandIds, MaxExpandChunks)}

ExpandWindows == {0, 1, 2}

ExpandConfigs ==
    {[chunk_expand_window |-> w, chunk_index |-> idx] :
        w \in ExpandWindows, idx \in {<<>>, _chunk_index}}

InitExpand ==
    /\ pc = "expand"
    /\ question = Q_AMPK
    /\ candidates \in ExpandInputs
    /\ \E c \in ExpandConfigs : config = Some(c)
    /\ NoHarness
    /\ retrieval = Some(RetrievalResult(question, candidates, Len(candidates),
                                        Len(candidates), candidates # <<>>))
    /\ generated = None
    /\ response = None
    /\ verified = <<>>
    /\ replay = None
    /\ weights = None
    /\ vector_results = <<>>
    /\ bm25_results = <<>>
    /\ last_retrieval = None
    /\ log = <<>>
    /\ calls = <<>>
    /\ evaluation = None
    /\ gate_passed = None
    /\ fused = <<>>
    /\ rerank_outcome = None

\* pipeline.py 117: retrieval = self.retriever.expand_chunks(retrieval)
ExpandOnce ==
    /\ pc = "expand"
    /\ retrieval' = Some(expand_chunks(retrieval[1], config[1].chunk_index,
                                       config[1].chunk_expand_window,
                                       max_chunks_after_expand))
    /\ pc' = "expanded"
    /\ UNCHANGED <<question, generated, response, verified, replay, weights,
                   vector_results, bm25_results, last_retrieval, log, calls, evaluation,
                   gate_passed, fused, candidates, rerank_outcome, config,
          harness, threads, pipelines, futures, results, log_file, runs>>

NextExpand == ExpandOnce

SpecExpand == InitExpand /\ [][NextExpand]_vars

\* C15: after expand_chunks returns, the chunk list holds at most
\* max_chunks_after_expand chunks, whatever list it was given and whatever
\* the chunk index and chunk_expand_window are.
CapInvariant ==
    pc = "expanded" => Len(retrieval[1].chunks) <= max_chunks_after_expand

\* C16: the chunks expand_chunks was given come back first, unchanged; every
\* chunk after them was added as a neighbor, and has bm25_score 0 and
\* vector_score and combined_score equal to 0.8 times those of the retained
\* chunk it was discovered from, which is the first retained chunk of the
\* same source and section whose sequence number is within the window of it.
NeighborDiscount ==
    pc = "expanded" =>
        LET out == retrieval[1].chunks
            n == Len(candidates)
            window == config[1].chunk_expand_window
            Near(parent, child) ==
                LET p == _parse_chunk_id(parent.chunk_id)
                    c == _parse_chunk_id(child.chunk_id)
                IN  /\ p # None /\ c # None
                    /\ p[1].source_id = c[1].source_id
                    /\ p[1].section = c[1].section
                    /\ p[1].num # c[1].num
                    /\ p[1].num - c[1].num <= window
                    /\ c[1].num - p[1].num <= window
        IN  /\ \A i \in DOMAIN out : i <= n => out[i] = candidates[i]
            /\ \A k \in DOMAIN out :
                  k > n =>
                    /\ out[k].bm25_score = 0
                    /\ \E i \in DOMAIN candidates :
                          /\ Near(candidates[i], out[k])
                          /\ \A h \in DOMAIN candidates :
                                h < i => ~Near(candidates[h], out[k])
                          /\ 10 * out[k].combined_score = 8 * candidates[i].combined_score
                          /\ 10 * out[k].vector_score = 8 * candidates[i].vector_score

\* a neighbor was added that lies within the window of two retained chunks
\* of different scores, the first of them found by the lexical search too
NeighborOfTwoRetained ==
    /\ pc = "expanded"
    /\ Len(candidates) = 2
    /\ Len(retrieval[1].chunks) = 3
    /\ candidates[1].chunk_id = ID_A3
    /\ candidates[2].chunk_id = ID_A1
    /\ candidates[1].bm25_score > 0
    /\ candidates[2].bm25_score = 0
    /\ retrieval[1].chunks[3].chunk_id = ID_A2

(***************************************************************************)
(* SpecEntity: entity_check on Answers whose text has grounded and         *)
(* ungrounded entities, one or several lines, an entity that runs over a   *)
(* line break, and sentences whose removal leaves 29, 30 and 31 of 100     *)
(* characters; the context is the text of any set of corpus chunks.        *)
(***************************************************************************)
BoundaryLength == 100
BoundaryKept == {29, 30, 31}

Filler(n) == [i \in 1..n |-> "a"]

\* a sentence of `kept` characters without entities, then a sentence that
\* names XYZ, BoundaryLength characters in all
BoundaryAnswer(kept) ==
    Filler(kept - 1) \o <<".", " ", "X", "Y", "Z", " ">> \o
    Filler(BoundaryLength - kept - 6) \o <<".">>

A_LINES == <<"A", "M", "P", "K", " ", "u", "p", ".", "\n", "X", "Y", "Z", " ", "1", ".", "\n", "R", "e", "s", "t", " ", "h", "e", "l", "p", "s", ".">>
A_SPANNING == <<"K", "e", "y", " ", "F", "a", "c", "t", "s", "\n", "N", "e", "w", " ", "D", "a", "t", "a", ".", " ", "A", "M", "P", "K", " ", "u", "p", ".">>
A_ALL_UNGROUNDED == <<"X", "Y", "Z", " ", "u", "p", ".">>

EntityAnswerTexts ==
    {BoundaryAnswer(kept) : kept \in BoundaryKept}
        \cup {A_GROUNDED, A_MIXED, A_LINES, A_SPANNING, A_ALL_UNGROUNDED}

EntityInputs ==
    {RAGResponse(a, <<>>, conf, "llm", noev, cav) :
        a \in EntityAnswerTexts, conf \in Confidences, noev \in BOOLEAN,
        cav \in {<<>>, <<GenCaveat>>}}

InitEntity ==
    /\ pc = "entity"
    /\ question = Q_AMPK
    /\ \E chunks \in ChunkLists :
         retrieval = Some(RetrievalResult(question, chunks, Len(chunks), Len(chunks), TRUE))
    /\ \E resp \in EntityInputs :
         /\ verified = <<resp>>
         /\ response = Some(resp)
    /\ generated = None
    /\ replay = None
    /\ weights = None
    /\ vector_results = <<>>
    /\ bm25_results = <<>>
    /\ last_retrieval = None
    /\ log = <<>>
    /\ calls = <<>>
    /\ evaluation = None
    /\ gate_passed = None
    /\ fused = <<>>
    /\ candidates = <<>>
    /\ rerank_outcome = None
    /\ config = None
    /\ NoHarness

\* pipeline.py 142-143: entity_check(response, context_text)
EntityCheckOnce ==
    /\ pc = "entity"
    /\ response' = Some(entity_check(response[1], ContextText(retrieval[1])))
    /\ pc' = "entity_checked"
    /\ UNCHANGED <<question, retrieval, generated, verified, replay, weights,
                   vector_results, bm25_results, last_retrieval, log, calls, evaluation,
                   gate_passed, fused, candidates, rerank_outcome, config,
          harness, threads, pipelines, futures, results, log_file, runs>>

NextEntity == EntityCheckOnce

SpecEntity == InitEntity /\ [][NextEntity]_vars

\* C17: after entity_check the answer text has at least 30% of the length
\* it had before the call; when the text left by removing the sentences
\* that name an ungrounded entity would be shorter than that, the answer
\* text is left as it was and one caveat that flags the ungrounded terms is
\* appended.
EntityFilterSafetyFloor ==
    pc = "entity_checked" =>
        LET before == verified[1]
            after == response[1]
            ungrounded == Ungrounded(before.answer, ContextText(retrieval[1]))
            lines == split(before.answer, "\n")
            remaining == strip(join(<<"\n">>, KeptLines(lines, ungrounded, 1)))
        IN  /\ 10 * Len(after.answer) >= 3 * Len(before.answer)
            /\ (/\ ~before.no_evidence
                /\ StrippedSentences(lines, ungrounded, 1) # <<>>
                /\ 10 * Len(remaining) < 3 * Len(before.answer)) =>
                    /\ after.answer = before.answer
                    /\ Len(after.caveats) = Len(before.caveats) + 1
                    /\ SubSeq(after.caveats, 1, Len(before.caveats)) = before.caveats
                    /\ after.caveats[Len(after.caveats)].kind = "entity_check"
                    /\ Range(after.caveats[Len(after.caveats)].items) \subseteq ungrounded
                    /\ after.caveats[Len(after.caveats)].items # <<>>

\* removing the sentence that names XYZ would leave 29 of 100 characters:
\* the answer came back whole, with a caveat
FloorKeptTheAnswer ==
    /\ pc = "entity_checked"
    /\ verified[1].answer = BoundaryAnswer(29)
    /\ ~verified[1].no_evidence
    /\ response[1].answer = verified[1].answer
    /\ Len(response[1].caveats) = Len(verified[1].caveats) + 1

\* C18: when the text that would remain after removing the sentences that
\* name an ungrounded entity is exactly 30% of the answer's length, the
\* answer text is left unchanged; at 31% remaining the sentences are
\* removed, at 29% remaining the answer text is left unchanged.
EntityFilterBoundary ==
    (pc = "entity_checked" /\ ~verified[1].no_evidence) =>
        LET before == verified[1]
            after == response[1]
            ungrounded == Ungrounded(before.answer, ContextText(retrieval[1]))
            lines == split(before.answer, "\n")
            remaining == strip(join(<<"\n">>, KeptLines(lines, ungrounded, 1)))
        IN  /\ (/\ StrippedSentences(lines, ungrounded, 1) # <<>>
                /\ 10 * Len(remaining) = 3 * Len(before.answer)) =>
                    after.answer = before.answer
            /\ before.answer = BoundaryAnswer(31) =>
                    after.answer = Filler(30) \o <<".">>
            /\ before.answer = BoundaryAnswer(29) => after.answer = before.answer

\* C18 (amended): when the text that would remain after removing the
\* sentences that name an ungrounded entity is exactly 30% of the answer's
\* length, the sentences are removed and the remaining text is returned; they
\* are removed at 31% remaining too, and at 29% remaining the answer text is
\* left unchanged.
EntityFilterBoundaryInclusive ==
    (pc = "entity_checked" /\ ~verified[1].no_evidence) =>
        LET before == verified[1]
            after == response[1]
            ungrounded == Ungrounded(before.answer, ContextText(retrieval[1]))
            lines == split(before.answer, "\n")
            remaining == strip(join(<<"\n">>, KeptLines(lines, ungrounded, 1)))
        IN  /\ (/\ StrippedSentences(lines, ungrounded, 1) # <<>>
                /\ 10 * Len(remaining) = 3 * Len(before.answer)) =>
                    /\ after.answer = remaining
                    /\ after.answer # before.answer
            /\ before.answer = BoundaryAnswer(30) =>
                    after.answer = Filler(29) \o <<".">>
            /\ before.answer = BoundaryAnswer(31) =>
                    after.answer = Filler(30) \o <<".">>
            /\ before.answer = BoundaryAnswer(29) => after.answer = before.answer

\* 30 of 100 characters remained and the sentence naming XYZ was removed
StrippedAtExactlyThirtyPercent ==
    /\ pc = "entity_checked"
    /\ ~verified[1].no_evidence
    /\ verified[1].answer = BoundaryAnswer(30)
    /\ Len(response[1].answer) = 30

\* C19: when no_evidence is false, an entity of the answer is absent from
\* the context and the safety floor does not apply, the answer that comes
\* back is made of exactly the sentences that name no ungrounded entity, and
\* so names no ungrounded entity; when no_evidence is true or every entity
\* is grounded, the Answer comes back unchanged.
EntityStrippingComplete ==
    pc = "entity_checked" =>
        LET before == verified[1]
            after == response[1]
            ungrounded == Ungrounded(before.answer, ContextText(retrieval[1]))
            lines == split(before.answer, "\n")
            remaining == strip(join(<<"\n">>, KeptLines(lines, ungrounded, 1)))
        IN  IF before.no_evidence \/ ungrounded = {} THEN after = before
            ELSE 10 * Len(remaining) >= 3 * Len(before.answer) =>
                    /\ after.answer = remaining
                    /\ \A ent \in ungrounded : ~contains(after.answer, ent)

\* C20: once the generator has answered, the caveats of the Answer are only
\* appended to: the generator's caveats are a prefix of the verifier's, and
\* the verifier's a prefix of the entity filter's; when the Citation Verifier
\* removed a citation its caveats list is strictly longer than the
\* generator's, and when the Entity Grounding Filter removed a sentence its
\* caveats list is strictly longer than the verifier's.
CaveatsOnlyGrow ==
    LET IsPrefix(a, b) == Len(a) <= Len(b) /\ SubSeq(b, 1, Len(a)) = a
    IN  generated # None =>
            /\ IsPrefix(generated[1].caveats, response[1].caveats)
            /\ verified # <<>> =>
                    /\ IsPrefix(generated[1].caveats, verified[1].caveats)
                    /\ Len(verified[1].citations) < Len(generated[1].citations) =>
                            Len(verified[1].caveats) > Len(generated[1].caveats)
            /\ pc \in {"checked", "done", "evaluated"} =>
                    /\ IsPrefix(verified[1].caveats, response[1].caveats)
                    /\ response[1].answer # verified[1].answer =>
                            Len(response[1].caveats) > Len(verified[1].caveats)

\* an Answer that came with a caveat of the generator lost a citation and
\* then a sentence: the returned list is the generator's caveat followed by
\* the verifier's and the filter's
CaveatsOfAllThreeStages ==
    /\ pc = "done"
    /\ generated # None
    /\ generated[1].caveats = <<GenCaveat>>
    /\ Len(verified[1].citations) < Len(generated[1].citations)
    /\ response[1].answer # verified[1].answer
    /\ Len(response[1].caveats) = 3
    /\ response[1].caveats[1] = GenCaveat
    /\ response[1].caveats[2].kind = "removed_citations"
    /\ response[1].caveats[3].kind = "entity_guard"

(***************************************************************************)
(* evaluator.py: Evaluator.run_full_eval, and the callers of               *)
(* RAGPipeline.query that run on several threads.  A call of query is      *)
(* followed here through the places where it touches what other threads    *)
(* can see: the _last_retrieval of its pipeline instance, the log file,    *)
(* the future or list its result goes to.  A RetrievalResult is named by   *)
(* the run (the call of query) that built it, an Answer by its run, the    *)
(* terminal state that produced it and the number of guardrails that       *)
(* changed it.                                                             *)
(***************************************************************************)
NumQueries == 2
max_workers == 2
max_retries == 2

Main == 0
Workers == 1..max_workers

\* what a call of query can come to before generation
QueryOutcomes == <<"gate_passed", "no_evidence_at_gate", "no_evidence_at_fusion">>

\* the submitted list.  The identifier of a query is not its position; a
\* query of the evaluation set comes to the same outcome, and its Answer to
\* the same number of guardrail changes, each time it is run.
queries ==
    [i \in 1..NumQueries |->
        [id |-> NumQueries + 1 - i,
         outcome |-> QueryOutcomes[((i - 1) % 3) + 1],
         mutations |-> i % 3]]

\* a question typed in the portal: any outcome, any number of changes
TypedQuestion == 0
QueryId(i) == IF i = TypedQuestion THEN 0 ELSE queries[i].id
OutcomesOf(i) ==
    IF i = TypedQuestion THEN Range(QueryOutcomes) ELSE {queries[i].outcome}
MutationsOf(i) == IF i = TypedQuestion THEN 0..2 ELSE {queries[i].mutations}

call_vars == <<pc, question, retrieval, generated, response, verified, replay, weights,
               vector_results, bm25_results, last_retrieval, log, calls, evaluation,
               gate_passed, fused, candidates, rerank_outcome, config>>

NoCall ==
    /\ pc = "harness"
    /\ question = <<>>
    /\ weights = [vector_weight |-> None, bm25_weight |-> None]
    /\ retrieval = None /\ generated = None /\ response = None /\ verified = <<>>
    /\ replay = None /\ vector_results = <<>> /\ bm25_results = <<>>
    /\ last_retrieval = None /\ log = <<>> /\ calls = <<>> /\ evaluation = None
    /\ gate_passed = None /\ fused = <<>> /\ candidates = <<>>
    /\ rerank_outcome = None /\ config = None

IdleThread ==
    [pc |-> "idle", q |-> 0, run |-> 0, pipeline |-> 0, response |-> None, written |-> 0,
     asked |-> FALSE]

\* RAGPipeline.__init__: a new instance, made in the given round (0: the batch)
NewPipeline(round) == [_last_retrieval |-> 0, round |-> round]

Answer(run, kind, mutations) == [run |-> run, kind |-> kind, mutations |-> mutations]

\* a faulty harness: one pipeline instance for the whole pool
_get_pipeline_shared(local_pipeline, created) == 1

\* evaluator.py 146-149: the instance of the calling thread, made on first use
_get_pipeline(local_pipeline, created) ==
    IF local_pipeline = 0 THEN created + 1 ELSE local_pipeline

\* the line QueryLogger.log builds: json.dumps(entry) + "\n"
EOL == [kind |-> "eol", query |-> 0, retrieval |-> 0, response |-> None]
LogLine(query, rr, resp) ==
    <<[kind |-> "entry", query |-> query, retrieval |-> rr, response |-> Some(resp)], EOL>>

\* a faulty logger: the entry and its line end go out in two write calls
log_writes_in_two(line) == <<SubSeq(line, 1, 1), SubSeq(line, 2, 2)>>

\* pipeline.py 63-64: the write calls of one log(), in order
log_writes(line) == <<line>>

\* a faulty collection: a failed future empties what was collected
harvest_losing(collected, future) ==
    IF future.state = "done" THEN Append(collected, future.result[1]) ELSE <<>>

\* evaluator.py 167-171: results.append(future.result()), or the failure is printed
harvest(collected, future) ==
    IF future.state = "done" THEN Append(collected, future.result[1]) ELSE collected

\* a faulty retry round: every query is run again
missing_all(collected) == [i \in 1..NumQueries |-> i]

\* evaluator.py 175-176: the positions of the queries with no result, in order
missing(collected) ==
    LET completed_ids == {collected[k].query_id : k \in DOMAIN collected}
        NoResult(i) == queries[i].id \notin completed_ids
    IN  SelectSeq([i \in 1..NumQueries |-> i], NoResult)

\* a faulty final check: nothing is reported
still_missing_silent(collected) == <<>>

\* evaluator.py 197-198
still_missing(collected) ==
    LET m == missing(collected) IN [k \in DOMAIN m |-> queries[m[k]].id]

\* a faulty resequencing: the sort key is the identifier
id_order_by_id(query_id) == query_id

\* evaluator.py 204-205: id_order.get(query_id, 0)
id_order(query_id) ==
    LET at == {i \in 1..NumQueries : queries[i].id = query_id}
    IN  IF at = {} THEN 0 ELSE (CHOOSE i \in at : \A j \in at : j <= i) - 1

\* list.sort(key=...): ascending and stable
sort_by_order(collected) ==
    LET key(k) == id_order(collected[k].query_id)
        Before(j, k) == key(j) < key(k) \/ (key(j) = key(k) /\ j < k)
        rank(k) == Cardinality({j \in DOMAIN collected : Before(j, k)}) + 1
    IN  [r \in DOMAIN collected |->
            collected[CHOOSE k \in DOMAIN collected : rank(k) = r]]

InitBatch ==
    /\ NoCall
    /\ harness = [pc |-> "start", attempt |-> 0, todo |-> <<>>, retry_pipeline |-> 0,
                  report |-> None]
    /\ threads = [t \in {Main} \cup Workers |-> IdleThread]
    /\ pipelines = <<>>
    /\ futures = <<>>
    /\ results = <<>>
    /\ log_file = <<>>
    /\ runs = <<>>

\* a call of evaluate_single (or of query) starts on thread t
StartRun(t, i, p, round) ==
    /\ runs' = Append(runs,
            [q |-> i, round |-> round, pipeline |-> p, on_main |-> t = Main,
             had_result |-> \E k \in DOMAIN results : results[k].query_id = QueryId(i),
             alone |-> \A u \in DOMAIN threads \ {t} : threads[u].pc = "idle"])
    /\ threads' = [threads EXCEPT ![t] =
            [pc |-> "query", q |-> i, run |-> Len(runs) + 1, pipeline |-> p,
             response |-> None, written |-> 0, asked |-> TRUE]]

\* the call on thread t is over: outcome is <<result>>, or <<>> after an exception
Completes(t, outcome) ==
    /\ threads' = [threads EXCEPT ![t] =
            [IdleThread EXCEPT !.pipeline = threads[t].pipeline,
                               !.asked = harness.pc = "portal"]]
    /\ IF harness.pc = "batch"
       THEN /\ futures' = [futures EXCEPT ![threads[t].q] =
                    [state |-> IF outcome = <<>> THEN "failed" ELSE "done",
                     result |-> outcome, harvested |-> FALSE]]
            /\ UNCHANGED <<harness, results>>
       ELSE /\ results' = results \o outcome
            /\ harness' = IF harness.pc = "retrying"
                          THEN [harness EXCEPT !.todo = Tail(@)] ELSE harness
            /\ UNCHANGED futures

\* evaluator.py 164-165: every query is submitted to the pool
Submit ==
    /\ harness.pc = "start"
    /\ futures' = [i \in 1..NumQueries |->
                        [state |-> "queued", result |-> None, harvested |-> FALSE]]
    /\ harness' = [harness EXCEPT !.pc = "batch"]
    /\ UNCHANGED <<call_vars, threads, pipelines, results, log_file, runs>>

\* evaluator.py 151-158: an idle worker thread takes the oldest queued task
StartWorker ==
    /\ harness.pc = "batch"
    /\ \E t \in Workers :
        /\ threads[t].pc = "idle"
        /\ \E i \in DOMAIN futures :
            /\ futures[i].state = "queued"
            /\ \A j \in DOMAIN futures : futures[j].state = "queued" => i <= j
            /\ LET p == _get_pipeline(threads[t].pipeline, Len(pipelines))
               IN  /\ pipelines' = IF p > Len(pipelines)
                                   THEN Append(pipelines, NewPipeline(0)) ELSE pipelines
                   /\ StartRun(t, i, p, 0)
            /\ futures' = [futures EXCEPT ![i].state = "running"]
    /\ UNCHANGED <<call_vars, harness, results, log_file>>

\* pipeline.py 97-143: the call comes to its Answer.  self._last_retrieval
\* is assigned on the way (105, 122 or 133); after the gate passed the
\* Answer is generated and changed by as many guardrails as find a fault.
QueryAnswers ==
    \E t \in DOMAIN threads :
        /\ threads[t].pc = "query"
        /\ pipelines' = [pipelines EXCEPT ![threads[t].pipeline]._last_retrieval = threads[t].run]
        /\ \E outcome \in OutcomesOf(threads[t].q), mutations \in MutationsOf(threads[t].q) :
            threads' = [threads EXCEPT ![t] =
                [@ EXCEPT !.pc = "answered",
                          !.response = Some(
                            IF outcome = "gate_passed"
                            THEN Answer(threads[t].run, "answered", mutations)
                            ELSE Answer(threads[t].run, outcome, 0))]]
        /\ UNCHANGED <<call_vars, harness, futures, results, log_file, runs>>

\* pipeline.py 63-64 (called at 107, 128, 146): the next write call of log();
\* after the last one query() returns
QueryLogs ==
    \E t \in DOMAIN threads :
        /\ threads[t].pc = "answered"
        /\ LET pieces == log_writes(LogLine(QueryId(threads[t].q), threads[t].run,
                                            threads[t].response[1]))
               k == threads[t].written + 1
           IN  /\ log_file' = log_file \o pieces[k]
               /\ threads' = [threads EXCEPT ![t] =
                    [@ EXCEPT !.written = k,
                              !.pc = IF k = Len(pieces) THEN "returned" ELSE @]]
        /\ UNCHANGED <<call_vars, harness, pipelines, futures, results, runs>>

\* an exception leaves query(): an index search failed (retriever.py 68,
\* 79), or the generation call did (generator.py 109), after line 133 had
\* assigned self._last_retrieval
QueryRaises ==
    \E t \in DOMAIN threads :
        /\ threads[t].pc = "query"
        /\ \E failing \in {"retrieve"} \cup
                (IF "gate_passed" \in OutcomesOf(threads[t].q) THEN {"generate"} ELSE {}) :
            pipelines' = IF failing = "generate"
                         THEN [pipelines EXCEPT
                                ![threads[t].pipeline]._last_retrieval = threads[t].run]
                         ELSE pipelines
        /\ Completes(t, <<>>)
        /\ UNCHANGED <<call_vars, log_file, runs>>

\* evaluator.py 69, 105: the judge call of evaluate_single raises
JudgeRaises ==
    \E t \in DOMAIN threads :
        /\ threads[t].pc = "returned"
        /\ harness.pc # "portal"
        /\ Completes(t, <<>>)
        /\ UNCHANGED <<call_vars, pipelines, log_file, runs>>

\* evaluator.py 92-120 and 159-160: evaluate_single reads
\* pipeline._last_retrieval, scores and returns
Scores ==
    \E t \in DOMAIN threads :
        /\ threads[t].pc = "returned"
        /\ harness.pc # "portal"
        /\ Completes(t, <<[query_id |-> QueryId(threads[t].q),
                           run |-> threads[t].run,
                           retrieval |-> pipelines[threads[t].pipeline]._last_retrieval,
                           response |-> threads[t].response[1]]>>)
        /\ UNCHANGED <<call_vars, pipelines, log_file, runs>>

\* evaluator.py 166-171: as_completed hands over a finished future
Harvest ==
    /\ harness.pc = "batch"
    /\ \E i \in DOMAIN futures :
        /\ futures[i].state \in {"done", "failed"}
        /\ ~futures[i].harvested
        /\ results' = harvest(results, futures[i])
        /\ futures' = [futures EXCEPT ![i].harvested = TRUE]
    /\ UNCHANGED <<call_vars, harness, threads, pipelines, log_file, runs>>

\* evaluator.py 164-174: the pool is left once every future was handed
\* over; its threads end, and their thread-local pipelines with them
ExitPool ==
    /\ harness.pc = "batch"
    /\ \A i \in DOMAIN futures : futures[i].harvested
    /\ harness' = [harness EXCEPT !.pc = "retry", !.attempt = 1]
    /\ threads' = [t \in DOMAIN threads |-> IdleThread]
    /\ UNCHANGED <<call_vars, pipelines, futures, results, log_file, runs>>

\* evaluator.py 174-182: the head of a retry round
BeginRound ==
    /\ harness.pc = "retry"
    /\ IF harness.attempt > max_retries \/ missing(results) = <<>>
       THEN /\ harness' = [harness EXCEPT !.pc = "final"]
            /\ UNCHANGED pipelines
       ELSE /\ pipelines' = Append(pipelines, NewPipeline(harness.attempt))
            /\ harness' = [harness EXCEPT !.pc = "retrying", !.todo = missing(results),
                                          !.retry_pipeline = Len(pipelines) + 1]
    /\ UNCHANGED <<call_vars, threads, futures, results, log_file, runs>>

\* evaluator.py 183-190: the next missing query is run on the calling thread
RetryStart ==
    /\ harness.pc = "retrying"
    /\ harness.todo # <<>>
    /\ threads[Main].pc = "idle"
    /\ StartRun(Main, Head(harness.todo), harness.retry_pipeline, harness.attempt)
    /\ UNCHANGED <<call_vars, harness, pipelines, futures, results, log_file>>

\* evaluator.py 174, 183: the round's list is exhausted
EndRound ==
    /\ harness.pc = "retrying"
    /\ harness.todo = <<>>
    /\ harness' = [harness EXCEPT !.pc = "retry", !.attempt = @ + 1]
    /\ UNCHANGED <<call_vars, threads, pipelines, futures, results, log_file, runs>>

\* evaluator.py 197-206: the final check, the sort and the return
FinalCheck ==
    /\ harness.pc = "final"
    /\ harness' = [harness EXCEPT !.pc = "returned",
                                  !.report = Some(still_missing(results))]
    /\ results' = sort_by_order(results)
    /\ UNCHANGED <<call_vars, threads, pipelines, futures, log_file, runs>>

NextBatch ==
    \/ Submit \/ StartWorker \/ QueryAnswers \/ QueryLogs \/ QueryRaises
    \/ JudgeRaises \/ Scores \/ Harvest \/ ExitPool \/ BeginRound \/ RetryStart
    \/ EndRound \/ FinalCheck

SpecBatch == InitBatch /\ [][NextBatch]_vars

(***************************************************************************)
(* app/main.py: the sessions of the portal.  Each session runs its script  *)
(* on a thread of its own; _get_pipeline is cached with st.cache_resource, *)
(* so every session gets the same RAGPipeline instance.                    *)
(***************************************************************************)
MaxSessions == 2
Sessions == 1..MaxSessions

InitPortal ==
    /\ NoCall
    /\ harness = [pc |-> "portal", attempt |-> 0, todo |-> <<>>, retry_pipeline |-> 0,
                  report |-> None]
    /\ threads = [t \in Sessions |-> IdleThread]
    /\ pipelines = <<>>
    /\ futures = <<>>
    /\ results = <<>>
    /\ log_file = <<>>
    /\ runs = <<>>

\* main.py 111, 127-129: Ask is clicked in a session; the pipeline is the
\* cached one, created by the first session that needs it
AskClicked ==
    /\ harness.pc = "portal"
    /\ \E t \in Sessions :
        /\ threads[t].pc = "idle"
        /\ ~threads[t].asked
        /\ pipelines' = IF pipelines = <<>> THEN <<NewPipeline(0)>> ELSE pipelines
        /\ StartRun(t, TypedQuestion, 1, 0)
    /\ UNCHANGED <<call_vars, harness, futures, results, log_file>>

\* main.py 130-133: the session reads pipeline._last_retrieval and keeps it
\* with the response in its session_state
SessionStores ==
    /\ harness.pc = "portal"
    /\ \E t \in Sessions :
        /\ threads[t].pc = "returned"
        /\ Completes(t, <<[query_id |-> QueryId(threads[t].q),
                           run |-> threads[t].run,
                           retrieval |-> pipelines[threads[t].pipeline]._last_retrieval,
                           response |-> threads[t].response[1]]>>)
    /\ UNCHANGED <<call_vars, pipelines, log_file, runs>>

NextPortal ==
    \/ AskClicked \/ QueryAnswers \/ QueryLogs \/ QueryRaises \/ SessionStores

SpecPortal == InitPortal /\ [][NextPortal]_vars

\* C21: every call of query that has returned an Answer returned one Answer
\* of its own and has exactly one record in the log file, which holds that
\* Answer as returned and the RetrievalResult of the same call; a call that
\* has not yet built its final Answer has no record; and the log file is at
\* every moment a sequence of whole records (an entry followed by its line
\* end), whatever the interleaving of the calls.
OneRecordPerCall ==
    LET At(r, where) == {t \in DOMAIN threads :
                                threads[t].run = r /\ threads[t].pc = where}
        Returned(r) ==
            IF \E k \in DOMAIN results : results[k].run = r
            THEN <<results[CHOOSE k \in DOMAIN results : results[k].run = r].response>>
            ELSE IF At(r, "returned") # {}
            THEN threads[CHOOSE t \in At(r, "returned") : TRUE].response
            ELSE <<>>
        Records(r) == {k \in DOMAIN log_file :
                            log_file[k].kind = "entry" /\ log_file[k].retrieval = r}
    IN  /\ \A r \in DOMAIN runs :
            /\ Cardinality({k \in DOMAIN results : results[k].run = r}) <= 1
            /\ Cardinality(Records(r)) <= 1
            /\ Returned(r) # <<>> =>
                    /\ Returned(r)[1].run = r
                    /\ Returned(r)[1].kind \in Range(QueryOutcomes) \cup {"answered"}
                    /\ \E k \in Records(r) :
                            /\ log_file[k].response = Returned(r)
                            /\ log_file[k].query = QueryId(runs[r].q)
            /\ At(r, "query") # {} => Records(r) = {}
        /\ Len(log_file) % 2 = 0
        /\ \A k \in DOMAIN log_file :
                log_file[k].kind = (IF k % 2 = 1 THEN "entry" ELSE "eol")

\* two calls ran at the same time and both returned; the one that started
\* second was logged first; one Answer was changed by both guardrails, the
\* other is a no-evidence Answer
TwoCallsLoggedOutOfOrder ==
    /\ Len(runs) >= 2
    /\ Len(log_file) = 4
    /\ log_file[1].retrieval = 2
    /\ log_file[3].retrieval = 1
    /\ ~runs[2].alone
    /\ \E j, k \in DOMAIN results :
        /\ results[j].response.kind = "answered" /\ results[j].response.mutations = 2
        /\ results[k].response.kind = "no_evidence_at_fusion"

\* C29: the RetrievalResult a caller reads from pipeline._last_retrieval
\* right after query() returned is the one of the call that returned the
\* Answer, also when another call runs on the same instance.
SideArtifactOfSameQuery ==
    \A k \in DOMAIN results : results[k].retrieval = results[k].response.run

\* C22: within one call of query the generative call is made at most once,
\* also after it failed; the stages run in the order fusion, rerank, expand,
\* gate, generate, verify citations, filter entities, each at most once and
\* none before the stage in front of it was completed.
StageOrderFixed ==
    LET Stage(c) ==
            CASE c \in {"vector_search", "bm25_search"} -> 1
              [] c \in {"rerank", "score_relevance", "scoring_failed"} -> 2
              [] c = "expand" -> 3
              [] c = "gate" -> 4
              [] c = "generate" -> 5
              [] c = "verify_citations" -> 6
              [] c = "entity_check" -> 7
              [] OTHER -> 8
        StageNames == <<"bm25_search", "rerank", "expand", "gate", "generate",
                        "verify_citations", "entity_check">>
        At(c) == {i \in DOMAIN calls : calls[i] = c}
    IN  /\ Cardinality(At("generate")) <= 1
        /\ \A c \in Range(StageNames) \cup {"vector_search", "log"} : Cardinality(At(c)) <= 1
        /\ \A i, j \in DOMAIN calls : i < j => Stage(calls[i]) <= Stage(calls[j])
        /\ \A k \in 2..Len(StageNames) :
                At(StageNames[k]) # {} => At(StageNames[k - 1]) # {}
        /\ At("bm25_search") # {} => At("vector_search") # {}
        /\ (pc = "failed" /\ At("generate") # {}) => calls[Len(calls)] = "generate"

\* a call that went through every stage, each once, and answered
AllStagesInOrder ==
    /\ pc = "done"
    /\ calls = <<"vector_search", "bm25_search", "rerank", "score_relevance", "expand",
                 "gate", "generate", "verify_citations", "entity_check", "log">>

\* C23: when an index search fails, or the generation call fails or returns
\* malformed output, the call of query ends there: it returns no Answer (in
\* particular not the no-evidence Answer), writes no log record, and nothing
\* runs after the failure; an Answer that is returned comes from a call in
\* which both searches and, if it ran, the generation call succeeded.
FailureIsNotNoEvidence ==
    /\ [](pc = "failed" =>
            /\ response = None
            /\ log = <<>>
            /\ evaluation = None
            /\ calls[Len(calls)] \in {"vector_search", "bm25_search", "generate"})
    /\ [](response # None => pc # "failed")
    /\ [][pc # "failed"]_vars

\* the generation call failed after the gate had passed: the caller got the
\* failure, no Answer
GenerationFailureReachedCaller ==
    /\ pc = "failed"
    /\ calls[Len(calls)] = "generate"
    /\ retrieval # None
    /\ retrieval[1].has_sufficient_evidence
    /\ response = None

\* C30: when the gate passed, every citation of the generator's Answer names
\* exactly the identifier of a supplied chunk and every entity detected in
\* its answer text is in the supplied context (as written or lowered), the
\* Answer that query returns is the generator's: same text, same citations
\* in the same order, same confidence, same no_evidence flag, same caveats.
GuardrailFrame ==
    (pc \in {"checked", "done", "evaluated"} /\ generated # None) =>
        LET gen == generated[1]
            context_text == ContextText(retrieval[1])
            exact == \A i \in DOMAIN gen.citations :
                        gen.citations[i].chunk_id \in RetrievedIds(retrieval[1])
            grounded == \A ent \in _extract_entities(gen.answer) :
                            \/ contains(context_text, ent)
                            \/ contains(lower(context_text), lower(ent))
        IN  (exact /\ grounded) =>
                /\ verified[1] = gen
                /\ response[1].answer = gen.answer
                /\ response[1].citations = gen.citations
                /\ response[1].confidence = gen.confidence
                /\ response[1].no_evidence = gen.no_evidence
                /\ response[1].caveats = gen.caveats
                /\ response[1] = gen

\* a high-confidence Answer that cites a supplied chunk, names only AMPK
\* (which the context holds) and carries a caveat of the generator came back
\* as it was
CleanAnswerReturnedAsGenerated ==
    /\ pc = "done"
    /\ generated # None
    /\ generated[1].answer = A_GROUNDED
    /\ generated[1].citations = <<Citation(<<"a">>, ID_A1)>>
    /\ ID_A1 \in RetrievedIds(retrieval[1])
    /\ generated[1].confidence = "high"
    /\ ~generated[1].no_evidence
    /\ generated[1].caveats = <<GenCaveat>>
    /\ contains(ContextText(retrieval[1]), <<"A", "M", "P", "K">>)
    /\ response = generated

\* C24: a call of evaluate_single made in a retry round starts when the
\* parallel batch is over and no other call is running, on the calling
\* thread, for a query that has no result, on a pipeline instance created
\* for that round and used in no other; there are at most max_retries
\* rounds, at most one call per query in the batch and in each round, so at
\* most 1 + max_retries calls per query.
RetryPolicy ==
    LET RunsOf(i) == {r \in DOMAIN runs : runs[r].q = i}
    IN  /\ \A r \in DOMAIN runs :
            /\ ~runs[r].had_result
            /\ runs[r].round = 0 => ~runs[r].on_main
            /\ runs[r].round > 0 =>
                /\ runs[r].on_main
                /\ runs[r].alone
                /\ runs[r].round <= max_retries
                /\ harness.pc \notin {"start", "batch"}
                /\ \A i \in DOMAIN futures :
                        futures[i].harvested /\ futures[i].state \in {"done", "failed"}
                /\ futures[runs[r].q].state = "failed"
                /\ pipelines[runs[r].pipeline].round = runs[r].round
                /\ \A r2 \in DOMAIN runs :
                        /\ runs[r2].pipeline = runs[r].pipeline => runs[r2].round = runs[r].round
                        /\ r2 < r => runs[r2].round <= runs[r].round
                        /\ (r2 # r /\ runs[r2].q = runs[r].q) => runs[r2].round # runs[r].round
        /\ \A i \in 1..NumQueries :
            /\ Cardinality(RunsOf(i)) <= 1 + max_retries
            /\ Cardinality({r \in RunsOf(i) : runs[r].round = 0}) <= 1

\* one query got its result in the batch and was run once; another failed
\* there and in the first round and got its result in the last round, on the
\* third pipeline made for it
ThirdAttemptSucceeded ==
    /\ harness.pc = "returned"
    /\ Len(results) = NumQueries
    /\ \E i, j \in 1..NumQueries :
        /\ Cardinality({r \in DOMAIN runs : runs[r].q = i}) = 1 + max_retries
        /\ Cardinality({r \in DOMAIN runs : runs[r].q = j}) = 1
        /\ \E r \in DOMAIN runs :
            /\ runs[r].q = i
            /\ runs[r].round = max_retries
            /\ \E k \in DOMAIN results : results[k].run = r

\* C25: when run_full_eval has returned, every submitted query has either
\* exactly one entry in the returned list and is not reported, or no entry
\* and is named in the still-missing report; at no moment has a query two
\* entries, and every entry is of a submitted query.
BatchCompleteness ==
    LET Entries(i) == {k \in DOMAIN results : results[k].query_id = queries[i].id}
    IN  /\ \A i \in 1..NumQueries : Cardinality(Entries(i)) <= 1
        /\ \A k \in DOMAIN results :
                \E i \in 1..NumQueries : results[k].query_id = queries[i].id
        /\ harness.pc = "returned" =>
            /\ harness.report # None
            /\ \A i \in 1..NumQueries :
                LET reported == \E m \in DOMAIN harness.report[1] :
                                    harness.report[1][m] = queries[i].id
                IN  \/ Cardinality(Entries(i)) = 1 /\ ~reported
                    \/ Cardinality(Entries(i)) = 0 /\ reported

\* a query failed in the batch and in every round and is reported; another
\* has its entry
OneReportedOneEvaluated ==
    /\ harness.pc = "returned"
    /\ Len(results) = NumQueries - 1
    /\ Len(harness.report[1]) = 1
    /\ \E i \in 1..NumQueries :
        /\ harness.report[1][1] = queries[i].id
        /\ Cardinality({r \in DOMAIN runs : runs[r].q = i}) = 1 + max_retries

\* C26: the list run_full_eval returns is ordered by the position each
\* entry's query had in the submitted list, in whatever order the pool
\* finished them and whether an entry came from the batch or from a retry.
BatchResequenced ==
    LET Position(k) == CHOOSE i \in 1..NumQueries : queries[i].id = results[k].query_id
    IN  harness.pc = "returned" =>
            \A j, k \in DOMAIN results : j < k => Position(j) < Position(k)

\* the entry of the first query was made in a retry round, after the entry
\* of a later query was made in the batch, and comes first in the list
RetriedEntryComesFirst ==
    /\ harness.pc = "returned"
    /\ Len(results) >= 2
    /\ results[1].query_id = queries[1].id
    /\ runs[results[1].run].round > 0
    /\ runs[results[2].run].round = 0
    /\ results[1].run > results[2].run

\* C27: in the parallel batch every submitted query is run, whatever happens
\* to the others: once the pool is left each query had its call in the
\* batch, and each call that did not fail has its result in the list, as the
\* worker computed it; while the pool is open a result handed over stays in
\* the list when a sibling fails.
FailureIsolation ==
    /\ \A i \in DOMAIN futures :
            (futures[i].harvested /\ futures[i].state = "done") =>
                \E k \in DOMAIN results :
                    /\ results[k] = futures[i].result[1]
                    /\ results[k].query_id = queries[i].id
                    /\ runs[results[k].run].q = i
                    /\ results[k].response.run = results[k].run
    /\ harness.pc \notin {"start", "batch"} =>
            \A i \in 1..NumQueries :
                /\ futures[i].harvested
                /\ futures[i].state \in {"done", "failed"}
                /\ \E r \in DOMAIN runs : runs[r].q = i /\ runs[r].round = 0

\* a query failed while its sibling was running on another worker; the
\* sibling's result was collected
SiblingSurvivedFailure ==
    /\ harness.pc = "retry"
    /\ Len(runs) = NumQueries
    /\ ~runs[2].alone
    /\ \E i, j \in DOMAIN futures :
        /\ futures[i].state = "failed"
        /\ futures[j].state = "done"
        /\ \E k \in DOMAIN results : results[k] = futures[j].result[1]

\* C28: no two threads that are running a call at the same time hold the
\* same RAGPipeline instance, and the RetrievalResult evaluate_single read
\* from pipeline._last_retrieval is the one of the call whose Answer it
\* scored.
PerWorkerIsolation ==
    /\ \A t, u \in DOMAIN threads :
            (t # u /\ threads[t].pc # "idle" /\ threads[u].pc # "idle") =>
                threads[t].pipeline # threads[u].pipeline
    /\ \A k \in DOMAIN results :
            /\ results[k].retrieval = results[k].run
            /\ results[k].retrieval = results[k].response.run
    /\ \A i \in DOMAIN futures :
            futures[i].state = "done" =>
                futures[i].result[1].retrieval = futures[i].result[1].run

\* two workers ran their calls at the same time, each on its own instance,
\* and both results were collected
TwoWorkersTwoPipelines ==
    /\ Len(runs) >= 2
    /\ runs[1].round = 0 /\ runs[2].round = 0
    /\ ~runs[2].alone
    /\ runs[1].pipeline # runs[2].pipeline
    /\ \E j, k \in DOMAIN results : results[j].run = 1 /\ results[k].run = 2

====
